---- MODULE Spec2Model ----
(***************************************************************************)
(* The data quality monitor of python_analytics/data_quality_monitor.py:   *)
(* the DataQualityMonitor object, the warehouse tables it reads, its own   *)
(* bookkeeping tables, and one monitoring cycle as a sequence of steps.    *)
(*                                                                         *)
(* Numbers.  Ratios and scores are exact fractions [num, den] (den > 0);   *)
(* a z-score magnitude is the square root of a fraction and carries        *)
(* root = 2.  Revenue is in whole units, growth rates and margins are      *)
(* integers in hundredths (0.25 is 25), times are seconds, order dates are *)
(* day numbers.                                                            *)
(* SQL NULL / Python None in a cell is the empty tuple, a value v is <<v>>.*)
(***************************************************************************)
EXTENDS Integers, Sequences, FiniteSets, TLC

\* ------------------------------------------------------------- bounds
MaxRows == 20
MaxObs == 8
MaxCycles == 2
MaxMonitors == 2

\* ------------------------------------------------------------- values
Null == <<>>
Some(v) == <<v>>
Val(c) == c[1]

R(n, d) == [num |-> n, den |-> d, root |-> 1]
Sqrt(n, d) == [num |-> n, den |-> d, root |-> 2]
RLt(a, b) == a.num * b.den < b.num * a.den
RLe(a, b) == a.num * b.den <= b.num * a.den
REq(a, b) == a.num * b.den = b.num * a.den
Abs(x) == IF x < 0 THEN -x ELSE x
Range(s) == {s[i] : i \in 1..Len(s)}

\* score > k for a score that is a fraction (root 1) or a square root (root 2)
ScoreGt(s, k) ==
    IF s.root = 1 THEN s.num > k * s.den ELSE s.num > k * k * s.den

RECURSIVE SelectIdx(_, _, _)
\* the indices i of 1..n, in order, for which keep[i]
SelectIdx(keep, i, n) ==
    IF i > n THEN <<>>
    ELSE IF keep[i] THEN <<i>> \o SelectIdx(keep, i + 1, n)
    ELSE SelectIdx(keep, i + 1, n)

\* ------------------------------------------------------------- names
PartnerDashboard == "mart_partner_performance_dashboard"
FinancialSummary == "mart_financial_performance_summary"

AllTables ==
    { PartnerDashboard, FinancialSummary, "mart_partner_optimization_insights",
      "mart_cohort_analysis", "dim_customer_segments", "dim_product_intelligence" }

\* column.endswith('_key') over the column names of the model
endswith_key(column) == column \in {"partner_key", "customer_key", "_key"}

timestamp_columns ==
    << "dashboard_updated_at", "summary_created_at", "insights_generated_at",
       "analysis_created_at", "segment_created_at", "intelligence_updated_at" >>

default_config ==
    [ thresholds |->
        [ data_completeness |-> R(95, 100),
          data_freshness_hours |-> R(24, 1),
          revenue_anomaly_threshold |-> R(30, 100),
          order_volume_anomaly_threshold |-> R(25, 100),
          margin_anomaly_threshold |-> R(15, 100) ],
      alerting |->
        [ slack_webhook |-> Null,
          email_config |-> [ sender_email |-> Null, recipient_emails |-> <<>> ] ],
      monitoring_tables |->
        << PartnerDashboard, FinancialSummary, "mart_partner_optimization_insights",
           "mart_cohort_analysis", "dim_customer_segments", "dim_product_intelligence" >> ]

\* ------------------------------------------------------------- SQL
NoTable == [exists |-> FALSE, cols |-> <<>>, rows |-> <<>>]
Table(cols, rows) == [exists |-> TRUE, cols |-> cols, rows |-> rows]

HasColumns(t, cs) == cs \subseteq Range(t.cols)

\* COUNT(*), COUNT(column), COUNT(DISTINCT column), MAX(column)
COUNT_star(t) == Len(t.rows)
COUNT(t, column) == Cardinality({i \in 1..Len(t.rows) : t.rows[i][column] # Null})
COUNT_DISTINCT(t, column) ==
    Cardinality({t.rows[i][column] : i \in 1..Len(t.rows)} \ {Null})

\* mutant: a zero divisor yields the ratio 0
SqlDiv_zero(n, d) == IF d = 0 THEN Some(R(0, 1)) ELSE Some(R(n, d))

\* CAST(n AS FLOAT) / d: SQLite yields NULL for a zero divisor
SqlDiv(n, d) == IF d = 0 THEN Null ELSE Some(R(n, d))

\* timestamps are ISO texts; MAX compares the texts: by instant, a trailing
\* 'Z' (an offset-aware text) after the same text without it
TsLess(a, b) == a.secs < b.secs \/ (a.secs = b.secs /\ ~a.aware /\ b.aware)
MAX(t, column) ==
    LET vals == {Val(t.rows[i][column]) :
                    i \in {j \in 1..Len(t.rows) : t.rows[j][column] # Null}}
    IN  IF vals = {} THEN Null
        ELSE Some(CHOOSE m \in vals : \A v \in vals : v = m \/ TsLess(v, m))

\* ------------------------------------------------------------- quality checks
\* DataQualityResult as built by _add_quality_result (column_name None is "None")
_add_quality_result(check_name, table_name, check_type, status, value, threshold, message, severity, column_name, at) ==
    [ check_name |-> check_name, table_name |-> table_name,
      column_name |-> column_name, check_type |-> check_type, status |-> status,
      value |-> value, threshold |-> threshold, message |-> message,
      timestamp |-> at, severity |-> severity ]

is_critical_column(column) ==
    endswith_key(column) \/ column \in {"revenue_30d", "overall_health_score", "order_date"}

\* mutant: the bar itself no longer passes (> for >=)
completeness_status_strict(completeness_rate, cfg) ==
    IF RLt(cfg.thresholds.data_completeness, completeness_rate) THEN "PASS" ELSE "FAIL"

completeness_status(completeness_rate, cfg) ==
    IF RLe(cfg.thresholds.data_completeness, completeness_rate) THEN "PASS" ELSE "FAIL"

completeness_severity(completeness_rate) ==
    IF RLt(completeness_rate, R(80, 100)) THEN "HIGH"
    ELSE IF RLt(completeness_rate, R(95, 100)) THEN "MEDIUM" ELSE "LOW"

RECURSIVE completeness_columns(_, _, _, _, _, _)
\* the loop over the columns: a NULL rate (no rows) makes the comparison raise,
\* which ends the loop; the results found before it stay
completeness_columns(cfg, table_name, t, at, i, acc) ==
    IF i > Len(t.cols) THEN acc
    ELSE LET column == t.cols[i] IN
        IF ~is_critical_column(column)
        THEN completeness_columns(cfg, table_name, t, at, i + 1, acc)
        ELSE LET total_rows == COUNT_star(t)
                 non_null_rows == COUNT(t, column)
                 completeness_rate == SqlDiv(non_null_rows, total_rows)
             IN  IF completeness_rate = Null THEN acc
                 ELSE completeness_columns(cfg, table_name, t, at, i + 1,
                        Append(acc, _add_quality_result(
                            "data_completeness", table_name, "COMPLETENESS",
                            completeness_status(Val(completeness_rate), cfg),
                            Val(completeness_rate), cfg.thresholds.data_completeness,
                            [text |-> "Completeness rate", rate |-> Val(completeness_rate),
                             a |-> non_null_rows, b |-> total_rows],
                            completeness_severity(Val(completeness_rate)), column, at)))

_check_data_completeness(cfg, table_name, t, at) ==
    completeness_columns(cfg, table_name, t, at, 1, <<>>)

freshness_status(hours_since_update, cfg) ==
    IF RLe(hours_since_update, cfg.thresholds.data_freshness_hours) THEN "PASS" ELSE "FAIL"

\* mutant: the two bars tested in the wrong order
freshness_severity_swapped(hours_since_update) ==
    IF RLt(R(24, 1), hours_since_update) THEN "HIGH"
    ELSE IF RLt(R(48, 1), hours_since_update) THEN "CRITICAL" ELSE "LOW"

freshness_severity(hours_since_update) ==
    IF RLt(R(48, 1), hours_since_update) THEN "CRITICAL"
    ELSE IF RLt(R(24, 1), hours_since_update) THEN "HIGH" ELSE "LOW"

\* the candidates of timestamp_columns that are columns of the table, in list order
present_timestamp_columns(t) ==
    SelectIdx([i \in 1..Len(timestamp_columns) |-> timestamp_columns[i] \in Range(t.cols)],
              1, Len(timestamp_columns))

\* mutant: without the break every candidate present is read
_check_data_freshness_every_column(cfg, table_name, t, at) ==
    LET present == present_timestamp_columns(t)
        readable == SelectIdx(
                        [k \in 1..Len(present) |->
                            LET latest == MAX(t, timestamp_columns[present[k]]) IN
                            latest # Null /\ ~Val(latest).aware],
                        1, Len(present))
    IN  [k \in 1..Len(readable) |->
            LET ts_column == timestamp_columns[present[readable[k]]]
                hours_since_update == R(at - Val(MAX(t, ts_column)).secs, 3600)
            IN  _add_quality_result(
                    "data_freshness", table_name, "FRESHNESS",
                    freshness_status(hours_since_update, cfg),
                    hours_since_update, cfg.thresholds.data_freshness_hours,
                    [text |-> "Data age in hours", rate |-> hours_since_update,
                     a |-> 0, b |-> 0],
                    freshness_severity(hours_since_update), ts_column, at)]

\* only the first candidate present is read (break); nothing is recorded when it
\* holds no timestamp, or when the latest text is offset-aware (the subtraction
\* from the naive datetime.now() raises)
_check_data_freshness(cfg, table_name, t, at) ==
    LET present == present_timestamp_columns(t) IN
    IF present = <<>> THEN <<>>
    ELSE LET ts_column == timestamp_columns[present[1]]
             latest == MAX(t, ts_column)
         IN  IF latest = Null THEN <<>>
             ELSE IF Val(latest).aware THEN <<>>
             ELSE LET hours_since_update == R(at - Val(latest).secs, 3600) IN
                  << _add_quality_result(
                        "data_freshness", table_name, "FRESHNESS",
                        freshness_status(hours_since_update, cfg),
                        hours_since_update, cfg.thresholds.data_freshness_hours,
                        [text |-> "Data age in hours", rate |-> hours_since_update,
                         a |-> 0, b |-> 0],
                        freshness_severity(hours_since_update), ts_column, at) >>

\* mutant: passes from the severity bar on (>= 0.9 for == 1.0)
uniqueness_status_lenient(uniqueness_rate) ==
    IF RLe(R(90, 100), uniqueness_rate) THEN "PASS" ELSE "FAIL"

uniqueness_status(uniqueness_rate) ==
    IF REq(uniqueness_rate, R(1, 1)) THEN "PASS" ELSE "FAIL"

\* mutant: a rate from the severity bar on is of low severity
uniqueness_severity_lenient(uniqueness_rate) ==
    IF RLt(uniqueness_rate, R(90, 100)) THEN "HIGH" ELSE "LOW"

uniqueness_severity(uniqueness_rate) ==
    IF RLt(uniqueness_rate, R(90, 100)) THEN "HIGH" ELSE "MEDIUM"

\* CAST(COUNT(DISTINCT key) AS FLOAT) / COUNT(*)
uniqueness_rate_of(t, key_column) == SqlDiv(COUNT_DISTINCT(t, key_column), COUNT_star(t))

RECURSIVE uniqueness_columns(_, _, _, _, _)
\* the loop over the key columns; a NULL rate makes "rate < 0.9" raise
uniqueness_columns(table_name, t, at, i, acc) ==
    IF i > Len(t.cols) THEN acc
    ELSE LET key_column == t.cols[i] IN
        IF ~endswith_key(key_column)
        THEN uniqueness_columns(table_name, t, at, i + 1, acc)
        ELSE LET total_rows == COUNT_star(t)
                 unique_rows == COUNT_DISTINCT(t, key_column)
                 uniqueness_rate == uniqueness_rate_of(t, key_column)
             IN  IF uniqueness_rate = Null THEN acc
                 ELSE uniqueness_columns(table_name, t, at, i + 1,
                        Append(acc, _add_quality_result(
                            "data_uniqueness", table_name, "UNIQUENESS",
                            uniqueness_status(Val(uniqueness_rate)),
                            Val(uniqueness_rate), R(1, 1),
                            [text |-> "Uniqueness rate", rate |-> Val(uniqueness_rate),
                             a |-> unique_rows, b |-> total_rows],
                            uniqueness_severity(Val(uniqueness_rate)), key_column, at)))

_check_data_uniqueness(table_name, t, at) == uniqueness_columns(table_name, t, at, 1, <<>>)

\* COUNT(CASE WHEN p THEN 1 END) counts the rows where p is true (a NULL operand
\* makes it not true)
negative_revenue(row) == row.revenue_30d # Null /\ Val(row.revenue_30d) < 0
invalid_health_score(row) ==
    /\ row.overall_health_score # Null
    /\ (Val(row.overall_health_score) < 0 \/ Val(row.overall_health_score) > 100)
negative_revenue_rows(t) == Cardinality({i \in 1..Len(t.rows) : negative_revenue(t.rows[i])})
invalid_health_score_rows(t) ==
    Cardinality({i \in 1..Len(t.rows) : invalid_health_score(t.rows[i])})

validity_result(check_name, column, table_name, t, bad, label, at) ==
    LET total_rows == COUNT_star(t)
        validity_rate == IF total_rows > 0 THEN R(total_rows - bad, total_rows) ELSE R(1, 1)
    IN  _add_quality_result(
            check_name, table_name, "VALIDITY",
            IF REq(validity_rate, R(1, 1)) THEN "PASS" ELSE "FAIL",
            validity_rate, R(1, 1),
            [text |-> label, rate |-> validity_rate, a |-> bad, b |-> total_rows],
            IF RLt(validity_rate, R(95, 100)) THEN "HIGH" ELSE "MEDIUM", column, at)

\* mutant: the predicates are applied to every table that has the two columns
_check_data_validity_any_table(table_name, t, at) ==
    IF ~HasColumns(t, {"revenue_30d", "overall_health_score"}) THEN <<>>
    ELSE << validity_result("revenue_validity", "revenue_30d", table_name, t,
                            negative_revenue_rows(t), "Revenue validity", at),
            validity_result("health_score_validity", "overall_health_score", table_name, t,
                            invalid_health_score_rows(t), "Health score validity", at) >>

\* only for the partner dashboard; a missing column makes the query raise
_check_data_validity(table_name, t, at) ==
    IF table_name # PartnerDashboard THEN <<>>
    ELSE IF ~HasColumns(t, {"revenue_30d", "overall_health_score"}) THEN <<>>
    ELSE << validity_result("revenue_validity", "revenue_30d", table_name, t,
                            negative_revenue_rows(t), "Revenue validity", at),
            validity_result("health_score_validity", "overall_health_score", table_name, t,
                            invalid_health_score_rows(t), "Health score validity", at) >>

high_revenue_low_health(row) ==
    /\ row.revenue_30d # Null /\ row.overall_health_score # Null
    /\ Val(row.revenue_30d) > 50000 /\ Val(row.overall_health_score) < 30

rule_status(rule_compliance) ==
    IF RLe(R(95, 100), rule_compliance) THEN "PASS" ELSE "WARN"

\* mutant: a compliance below 0.9 is of high severity
rule_severity_escalated(rule_compliance) ==
    IF RLt(rule_compliance, R(90, 100)) THEN "HIGH" ELSE "LOW"

rule_severity(rule_compliance) ==
    IF RLt(rule_compliance, R(90, 100)) THEN "MEDIUM" ELSE "LOW"

_check_business_rules(table_name, t, at) ==
    IF table_name # PartnerDashboard THEN <<>>
    ELSE IF ~HasColumns(t, {"revenue_30d", "overall_health_score"}) THEN <<>>
    ELSE LET total_rows == COUNT_star(t)
             anomalous_rows ==
                Cardinality({i \in 1..Len(t.rows) : high_revenue_low_health(t.rows[i])})
         IN  IF total_rows > 0
             THEN LET rule_compliance == R(total_rows - anomalous_rows, total_rows) IN
                  << _add_quality_result(
                        "revenue_health_consistency", table_name, "BUSINESS_RULE",
                        rule_status(rule_compliance),
                        rule_compliance, R(95, 100),
                        [text |-> "Revenue-health consistency", rate |-> rule_compliance,
                         a |-> anomalous_rows, b |-> total_rows],
                        rule_severity(rule_compliance),
                        "None", at) >>
             ELSE <<>>

\* ------------------------------------------------------------- anomaly detection
RDiv(a, b) == R(a.num * b.den, a.den * b.num)

AnomalyResult(table_name, metric_name, current_value, expected_value, deviation, anomaly_score, context, at) ==
    [ table_name |-> table_name, metric_name |-> metric_name,
      current_value |-> current_value, expected_value |-> expected_value,
      deviation |-> deviation, anomaly_score |-> anomaly_score,
      is_anomaly |-> TRUE, timestamp |-> at, context |-> context ]

\* date('now'): the day number of the clock
Today(at) == at \div 86400

RECURSIVE InsertByDate(_, _)
\* row put after every row whose order_date is not later (a stable sort)
InsertByDate(sorted, row) ==
    IF sorted = <<>> THEN <<row>>
    ELSE IF Val(sorted[Len(sorted)].order_date) <= Val(row.order_date)
    THEN Append(sorted, row)
    ELSE Append(InsertByDate(SubSeq(sorted, 1, Len(sorted) - 1), row), sorted[Len(sorted)])

RECURSIVE OrderByDate(_, _)
OrderByDate(rows, n) ==
    IF n = 0 THEN <<>> ELSE InsertByDate(OrderByDate(rows, n - 1), rows[n])

\* WHERE order_date >= date('now', '-30 days') ORDER BY order_date
recent_revenue_rows(t, at) ==
    LET keep == [i \in 1..Len(t.rows) |->
                    /\ t.rows[i].order_date # Null
                    /\ Val(t.rows[i].order_date) >= Today(at) - 30]
        idx == SelectIdx(keep, 1, Len(t.rows))
        kept == [k \in 1..Len(idx) |-> t.rows[idx[k]]]
    IN  OrderByDate(kept, Len(kept))

\* the group keys of df.groupby, in sorted order (rows with a NULL key are dropped)
Channels == <<"direct", "marketplace">>
Segments == <<"new", "vip">>
GroupKeys ==
    [k \in 1..(Len(Channels) * Len(Segments)) |->
        [channel |-> Channels[((k - 1) \div Len(Segments)) + 1],
         segment |-> Segments[((k - 1) % Len(Segments)) + 1]]]

\* group['daily_revenue'].values: the group's revenues in date order
group_values(data, key) ==
    LET keep == [i \in 1..Len(data) |->
                    /\ data[i].partner_channel = Some(key.channel)
                    /\ data[i].customer_segment = Some(key.segment)]
        idx == SelectIdx(keep, 1, Len(data))
    IN  [k \in 1..Len(idx) |-> Val(data[idx[k]].daily_revenue)]

RECURSIVE SeqSum(_)
SeqSum(s) == IF s = <<>> THEN 0 ELSE s[1] + SeqSum(Tail(s))
Squares(s) == [i \in 1..Len(s) |-> s[i] * s[i]]

\* mutant: a group of exactly 7 is skipped (<= 7 for < 7)
min_observations_strict(revenue_values) == Len(revenue_values) > 7

\* len(group) < 7: continue
min_observations(revenue_values) == Len(revenue_values) >= 7

\* mutant: the first three observations (revenue_values[:3])
recent_values_first(revenue_values) ==
    SubSeq(revenue_values, 1, IF Len(revenue_values) > 3 THEN 3 ELSE Len(revenue_values))

\* revenue_values[-3:]
recent_values(revenue_values) ==
    SubSeq(revenue_values,
           IF Len(revenue_values) > 3 THEN Len(revenue_values) - 2 ELSE 1,
           Len(revenue_values))

\* with n values of sum S and sum of squares Q: mean = S/n, std^2 = (nQ - S^2)/n^2,
\* so z^2 = (n*val - S)^2 / (nQ - S^2)
z_numerator(revenue_values, val) == Len(revenue_values) * val - SeqSum(revenue_values)
variance_numerator(revenue_values) ==
    Len(revenue_values) * SeqSum(Squares(revenue_values))
        - SeqSum(revenue_values) * SeqSum(revenue_values)

\* abs(z_score) > 2
z_exceeds(revenue_values, val) ==
    z_numerator(revenue_values, val) * z_numerator(revenue_values, val)
        > 4 * variance_numerator(revenue_values)

group_anomalies(key, revenue_values, at) ==
    IF ~min_observations(revenue_values) THEN <<>>
    ELSE IF ~(variance_numerator(revenue_values) > 0) THEN <<>>
    ELSE LET n == Len(revenue_values)
             recent == recent_values(revenue_values)
             flagged == SelectIdx([i \in 1..Len(recent) |-> z_exceeds(revenue_values, recent[i])],
                                  1, Len(recent))
         IN  [k \in 1..Len(flagged) |->
                LET val == recent[flagged[k]]
                    zn == z_numerator(revenue_values, val)
                IN  AnomalyResult(
                        FinancialSummary, "daily_revenue", R(val, 1),
                        R(SeqSum(revenue_values), n), R(Abs(zn), n),
                        Sqrt(zn * zn, variance_numerator(revenue_values)),
                        [partner_channel |-> key.channel, customer_segment |-> key.segment,
                         z_sign |-> IF zn < 0 THEN -1 ELSE 1, threshold |-> R(2, 1)],
                        at)]

RECURSIVE revenue_groups(_, _, _)
revenue_groups(data, k, at) ==
    IF k > Len(GroupKeys) THEN <<>>
    ELSE group_anomalies(GroupKeys[k], group_values(data, GroupKeys[k]), at)
            \o revenue_groups(data, k + 1, at)

\* a missing table or column makes the query raise: nothing is recorded
_detect_revenue_anomalies(t, at) ==
    IF ~t.exists \/ ~HasColumns(t, {"order_date", "partner_channel", "customer_segment",
                                    "daily_revenue", "revenue_growth_30d"})
    THEN <<>>
    ELSE revenue_groups(recent_revenue_rows(t, at), 1, at)

\* mutant: a growth equal to the threshold is flagged (>= for >)
volume_flagged_inclusive(row, cfg) ==
    /\ row.order_growth_30d # Null
    /\ RLe(cfg.thresholds.order_volume_anomaly_threshold,
           R(Abs(Val(row.order_growth_30d)), 100))

\* abs(order_growth_30d) > threshold; a NULL growth is NaN or None: never flagged
volume_flagged(row, cfg) ==
    /\ row.order_growth_30d # Null
    /\ RLt(cfg.thresholds.order_volume_anomaly_threshold,
           R(Abs(Val(row.order_growth_30d)), 100))

volume_anomaly(row, cfg, at) ==
    LET growth == Val(row.order_growth_30d) IN
    AnomalyResult(
        PartnerDashboard, "order_volume_growth", R(growth, 100), R(0, 1),
        R(Abs(growth), 100),
        RDiv(R(Abs(growth), 100), cfg.thresholds.order_volume_anomaly_threshold),
        [partner_channel |-> row.partner_channel, customer_segment |-> row.customer_segment,
         orders_30d |-> row.orders_30d],
        at)

_detect_volume_anomalies(t, cfg, at) ==
    IF ~t.exists \/ ~HasColumns(t, {"partner_channel", "customer_segment", "orders_30d",
                                    "order_growth_30d"})
    THEN <<>>
    ELSE LET idx == SelectIdx([i \in 1..Len(t.rows) |-> volume_flagged(t.rows[i], cfg)],
                              1, Len(t.rows))
         IN  [k \in 1..Len(idx) |-> volume_anomaly(t.rows[idx[k]], cfg, at)]

\* mutant: a margin of zero is flagged (<= for <)
margin_flagged_nonpositive(row, cfg) ==
    row.avg_gross_margin_30d # Null /\ Val(row.avg_gross_margin_30d) <= 0

\* avg_gross_margin_30d < 0
margin_flagged(row, cfg) ==
    row.avg_gross_margin_30d # Null /\ Val(row.avg_gross_margin_30d) < 0

\* mutant: the configured margin threshold taken as the expected margin
expected_margin_configured(cfg) == cfg.thresholds.margin_anomaly_threshold

\* the expected margin of 20%
expected_margin(cfg) == R(20, 100)

margin_anomaly(row, cfg, at) ==
    LET margin == Val(row.avg_gross_margin_30d)
        expected == expected_margin(cfg)
        deviation == R(Abs(margin * expected.den - expected.num * 100), 100 * expected.den)
    IN  AnomalyResult(
            PartnerDashboard, "gross_margin", R(margin, 100), expected, deviation,
            RDiv(deviation, expected),
            [partner_channel |-> row.partner_channel, customer_segment |-> row.customer_segment,
             type |-> "negative_margin"],
            at)

_detect_margin_anomalies(t, cfg, at) ==
    IF ~t.exists \/ ~HasColumns(t, {"partner_channel", "customer_segment",
                                    "avg_gross_margin_30d", "avg_net_margin_30d"})
    THEN <<>>
    ELSE LET idx == SelectIdx([i \in 1..Len(t.rows) |-> margin_flagged(t.rows[i], cfg)],
                              1, Len(t.rows))
         IN  [k \in 1..Len(idx) |-> margin_anomaly(t.rows[idx[k]], cfg, at)]

\* ------------------------------------------------------------- alerts and report
\* mutant: the whole list, without the cap
First5_uncapped(s) == s

\* s[:5]
First5(s) == SubSeq(s, 1, IF Len(s) < 5 THEN Len(s) ELSE 5)

is_critical(r) == r.severity = "CRITICAL"
is_high(r) == r.severity = "HIGH"
is_flagged(a) == a.is_anomaly

_generate_alert_message(critical_issues, high_issues, anomalies, at) ==
    [ markdown |-> TRUE,
      critical_count |-> Len(critical_issues),
      critical_lines |-> [i \in 1..Len(First5(critical_issues)) |->
            <<critical_issues[i].table_name, critical_issues[i].message>>],
      high_count |-> Len(high_issues),
      high_lines |-> [i \in 1..Len(First5(high_issues)) |->
            <<high_issues[i].table_name, high_issues[i].message>>],
      anomaly_count |-> Len(anomalies),
      anomaly_lines |-> [i \in 1..Len(First5(anomalies)) |->
            <<anomalies[i].table_name, anomalies[i].metric_name, anomalies[i].anomaly_score>>],
      timestamp |-> at ]

\* message.replace("**", "").replace("*", ""): the summary without its emphasis marks
plain_message(message) == [message EXCEPT !.markdown = FALSE]

is_pass(r) == r.status = "PASS"
is_fail(r) == r.status = "FAIL"
\* mutant: warnings are looked up under another spelling
is_warn_misspelt(r) == r.status = "WARNING"
is_warn(r) == r.status = "WARN"
is_high_score(a) == ScoreGt(a.anomaly_score, 3)

\* mutant: the division without its guard (a ratio over zero checks)
success_rate_unguarded(passed_checks, total_checks) == R(passed_checks, total_checks)

\* passed_checks / total_checks if total_checks > 0 else 0
success_rate(passed_checks, total_checks) ==
    IF total_checks > 0 THEN R(passed_checks, total_checks) ELSE R(0, 1)

generate_quality_report(results, anomalies, at) ==
    LET total_checks == Len(results)
        passed_checks == Len(SelectSeq(results, is_pass))
        failed_checks == Len(SelectSeq(results, is_fail))
        warning_checks == Len(SelectSeq(results, is_warn))
        severities == {results[i].severity : i \in 1..Len(results)}
        tables == {results[i].table_name : i \in 1..Len(results)}
        metrics == {anomalies[i].metric_name : i \in 1..Len(anomalies)}
    IN  [ generated_at |-> at,
          summary |->
            [ total_checks |-> total_checks, passed_checks |-> passed_checks,
              failed_checks |-> failed_checks, warning_checks |-> warning_checks,
              success_rate |-> success_rate(passed_checks, total_checks) ],
          severity_breakdown |->
            [sv \in severities |->
                Cardinality({i \in 1..Len(results) : results[i].severity = sv})],
          table_summary |->
            [tn \in tables |->
                [st \in {"PASS", "FAIL", "WARN"} |->
                    Cardinality({i \in 1..Len(results) :
                        results[i].table_name = tn /\ results[i].status = st})]],
          anomaly_summary |->
            [ total_anomalies |-> Len(anomalies),
              high_score_anomalies |-> Len(SelectSeq(anomalies, is_high_score)),
              by_metric |->
                [m \in metrics |->
                    Cardinality({i \in 1..Len(anomalies) : anomalies[i].metric_name = m})] ],
          quality_results |-> results,
          anomaly_results |-> anomalies ]

\* ------------------------------------------------------------- dashboard
\* business_intelligence_dashboard.py: the tabs, the table each one queries with the
\* columns its query names, and the charts it builds
Tabs ==
    << "partner-performance", "financial-analytics", "cohort-analysis",
       "customer-intelligence", "product-intelligence", "predictive-analytics" >>

tab_table(active_tab) ==
    CASE active_tab = "partner-performance" -> PartnerDashboard
      [] active_tab = "financial-analytics" -> FinancialSummary
      [] active_tab = "cohort-analysis" -> "mart_cohort_analysis"
      [] active_tab = "customer-intelligence" -> "dim_customer_segments"
      [] active_tab = "product-intelligence" -> "dim_product_intelligence"
      [] OTHER -> FinancialSummary

tab_query_columns(active_tab) ==
    CASE active_tab = "partner-performance" -> {"overall_health_score"}
      [] active_tab = "financial-analytics" -> {"order_date"}
      [] active_tab = "cohort-analysis" -> {"cohort_month", "period_number"}
      [] active_tab = "customer-intelligence" -> {"estimated_annual_value"}
      [] active_tab = "product-intelligence" -> {"product_score"}
      [] OTHER -> {}

tab_charts(active_tab) ==
    CASE active_tab = "partner-performance" ->
            << "kpi_cards", "partner_performance_chart", "partner_health_matrix",
               "partner_trend_chart" >>
      [] active_tab = "financial-analytics" ->
            << "revenue_trend_chart", "margin_analysis_chart", "financial_metrics_chart",
               "risk_assessment_chart" >>
      [] active_tab = "cohort-analysis" ->
            << "cohort_retention_heatmap", "cohort_revenue_chart", "ltv_analysis_chart" >>
      [] active_tab = "customer-intelligence" ->
            << "customer_segment_chart", "customer_value_chart", "customer_behavior_chart" >>
      [] active_tab = "product-intelligence" ->
            << "product_portfolio_chart", "product_performance_matrix",
               "product_lifecycle_chart" >>
      [] OTHER -> <<>>

\* get_data: the rows of the query, or an empty frame when the query raised (a table
\* or a column it names does not exist); the financial tab keeps the last 30 days
get_data(active_tab, w, at) ==
    LET t == w[tab_table(active_tab)] IN
    IF ~t.exists \/ ~HasColumns(t, tab_query_columns(active_tab)) THEN <<>>
    ELSE IF active_tab = "financial-analytics"
    THEN SelectSeq(t.rows, LAMBDA row :
            row.order_date # Null /\ Val(row.order_date) >= Today(at) - 30)
    ELSE t.rows

TabContent(active_tab, raised, content, figures) ==
    [tab |-> active_tab, raised |-> raised, content |-> content, figures |-> figures]

\* a tab of charts: a message when the frame is empty, else one figure per chart, an
\* empty one where the chart's builder raised
create_tab(active_tab, w, failed, at) ==
    IF get_data(active_tab, w, at) = <<>>
    THEN TabContent(active_tab, FALSE, "no_data", <<>>)
    ELSE TabContent(active_tab, FALSE, "charts",
            [i \in 1..Len(tab_charts(active_tab)) |->
                IF tab_charts(active_tab)[i] \in failed THEN "empty" ELSE "figure"])

\* forecasting.get_revenue_forecast reads data['order_date'] and data['daily_revenue']
get_revenue_forecast_raises(t) == ~HasColumns(t, {"order_date", "daily_revenue"})

\* the forecast tab: a message when the frame is empty; otherwise the forecast is
\* called without a handler, and what it raises goes to the framework
create_predictive_analytics_tab(w, fit_raises, at) ==
    LET active_tab == "predictive-analytics" IN
    IF get_data(active_tab, w, at) = <<>>
    THEN TabContent(active_tab, FALSE, "no_data", <<>>)
    ELSE IF get_revenue_forecast_raises(w[FinancialSummary]) \/ fit_raises
    THEN TabContent(active_tab, TRUE, "none", <<>>)
    ELSE TabContent(active_tab, FALSE, "charts", <<"figure">>)

\* ------------------------------------------------------------- state
VARIABLES
    config_file,          \* the JSON file at config_path: Null when absent
    warehouse,            \* the warehouse tables, by name
    db_tables,            \* the bookkeeping tables that exist in the database file
    db_quality_results,   \* rows of table quality_results, in id order
    db_anomaly_results,   \* rows of table anomaly_results
    db_monitoring_metrics,\* rows of table monitoring_metrics
    config,               \* self.config: Null before construction
    quality_results,      \* self.quality_results
    anomaly_results,      \* self.anomaly_results
    pc,                   \* where the caller is
    table_idx,            \* position in config["monitoring_tables"]
    now,                  \* datetime.now(), in seconds
    faults,               \* the failures the environment may inject
    cycles,               \* monitoring cycles started
    monitors,             \* monitor objects constructed
    dispatched,           \* alert sends attempted, in order
    alert_messages,       \* the summaries _generate_alert_message composed, in order
    tab_content,          \* what the dashboard's last callback gave the framework
    report                \* what the last cycle returned: Null when none

vars ==
    << config_file, warehouse, db_tables, db_quality_results, db_anomaly_results,
       db_monitoring_metrics, config, quality_results, anomaly_results, pc, table_idx,
       now, faults, cycles, monitors, dispatched, alert_messages, tab_content, report >>

Config == Val(config)

\* ------------------------------------------------------------- inputs
\* the clock at the start: day 100, 00:00
Now0 == 100 * 86400
Hour == 3600

NoFaults == [store |-> FALSE, table_exists |-> {}, slack |-> FALSE, smtp |-> FALSE]
EmptyWarehouse == [tn \in AllTables |-> NoTable]
Scenario(w, cf, f) == [warehouse |-> w, config_file |-> cf, faults |-> f]

WithThresholds(cfg, th) == [cfg EXCEPT !.thresholds = th]
AltThresholds ==
    { [default_config.thresholds EXCEPT !.data_completeness = c, !.data_freshness_hours = h,
            !.order_volume_anomaly_threshold = v, !.margin_anomaly_threshold = m] :
        c \in {R(1, 2)}, h \in {R(72, 1)}, v \in {R(50, 100)}, m \in {R(30, 100)} }
    \cup { [default_config.thresholds EXCEPT !.data_completeness = R(1, 1),
            !.data_freshness_hours = R(12, 1)] }
ConfigFiles == {Null} \cup {Some(WithThresholds(default_config, th)) : th \in AltThresholds}

\* --- a dimension table with a key column and a date column (ratio checks)
SegmentCols == <<"customer_key", "order_date", "segment_name">>
SegmentRow(key, date) ==
    [customer_key |-> key, order_date |-> date, segment_name |-> Some("loyal")]
\* n rows: the first `nulls` keys are NULL, the others take `distinct` values
KeyedRows(n, nulls, distinct) ==
    [i \in 1..n |->
        SegmentRow(IF i <= nulls THEN Null
                   ELSE Some(IF i - nulls < distinct THEN i - nulls ELSE distinct),
                   Some(100))]
\* n rows with distinct keys: the first `nulls` dates are NULL
DatedRows(n, nulls) ==
    [i \in 1..n |-> SegmentRow(Some(i), IF i <= nulls THEN Null ELSE Some(100))]

SegmentWarehouse(rows) ==
    [EmptyWarehouse EXCEPT !["dim_customer_segments"] = Table(SegmentCols, rows)]

KeyFamily ==
    { Scenario(SegmentWarehouse(KeyedRows(n, nulls, distinct)), Null, NoFaults) :
        n \in 0..MaxRows, nulls \in {0, 1, MaxRows},
        distinct \in {1, 8, 9, 10, 17, 18, 19, 20, MaxRows} }
DateFamily ==
    { Scenario(SegmentWarehouse(DatedRows(n, nulls)), cf, NoFaults) :
        n \in 0..MaxRows, nulls \in 0..MaxRows, cf \in ConfigFiles }

\* --- a mart table with timestamp columns (freshness)
Naive(age) == Some([secs |-> Now0 - age, aware |-> FALSE])
Aware(age) == Some([secs |-> Now0 - age, aware |-> TRUE])
\* ages around the 24 h and 48 h bars, and a timestamp in the future
StampCells ==
    {Null, Aware(Hour)}
    \cup {Naive(age) : age \in {0, 12 * Hour, 24 * Hour, 24 * Hour + 1, 48 * Hour,
                                48 * Hour + 1, 72 * Hour, 72 * Hour + 1, 0 - Hour}}
CohortRow1(a) == [analysis_created_at |-> a]
CohortRow2(a, b) == [segment_created_at |-> a, analysis_created_at |-> b]
CohortWarehouse(cols, rows) ==
    [EmptyWarehouse EXCEPT !["mart_cohort_analysis"] = Table(cols, rows)]

StampFamily ==
    { Scenario(CohortWarehouse(<<"analysis_created_at">>, rows), cf, NoFaults) :
        rows \in {<<>>} \cup {<<CohortRow1(a)>> : a \in StampCells}
                 \cup {<<CohortRow1(a), CohortRow1(b)>> : a, b \in StampCells},
        cf \in ConfigFiles }
\* two candidates, stored in the table in the other order than in the candidate list
TwoStampFamily ==
    { Scenario(CohortWarehouse(<<"segment_created_at", "analysis_created_at">>, rows),
               Null, NoFaults) :
        rows \in {<<CohortRow2(a, b)>> :
                    a, b \in {Null, Naive(0), Naive(30 * Hour), Naive(50 * Hour)}} }
    \cup { Scenario(CohortWarehouse(<<"cohort_month">>, <<[cohort_month |-> Some(1)]>>),
                    Null, NoFaults) }

\* --- the financial summary (revenue scan)
FinancialCols ==
    <<"order_date", "partner_channel", "customer_segment", "daily_revenue",
      "revenue_growth_30d">>
FinancialRow(date, channel, segment, revenue) ==
    [order_date |-> date, partner_channel |-> channel, customer_segment |-> segment,
     daily_revenue |-> Some(revenue), revenue_growth_30d |-> Null]
FinancialWarehouse(rows) ==
    [EmptyWarehouse EXCEPT ![FinancialSummary] = Table(FinancialCols, rows)]
Reverse(s) == [i \in 1..Len(s) |-> s[Len(s) + 1 - i]]

\* one group of daily observations on the days up to today, stored in date order
Daily(values, channel, segment) ==
    [i \in 1..Len(values) |->
        FinancialRow(Some(Today(Now0) - Len(values) + i), Some(channel), Some(segment),
                     values[i])]

\* ten days, nine at 100 and the one at position p at 1000
OutlierSeries(p) == [i \in 1..10 |-> IF i = p THEN 1000 ELSE 100]
OutlierFamily ==
    { Scenario(FinancialWarehouse(rows), Null, NoFaults) :
        rows \in {Daily(OutlierSeries(p), "direct", "vip") : p \in 1..10}
                 \cup {Reverse(Daily(OutlierSeries(p), "direct", "vip")) : p \in 1..10} }

\* the series of up to MaxObs observations over two revenue levels in which one of
\* the levels is taken at most twice (with three of each no value is two deviations
\* from the mean)
RevenueSeries ==
    UNION { {values \in [1..n -> {100, 1000}] :
                \E level \in {100, 1000} :
                    Cardinality({i \in 1..n : values[i] = level}) <= 2} :
            n \in 0..MaxObs }
SeriesFamily ==
    { Scenario(FinancialWarehouse(Daily(values, "direct", "new")), Null, NoFaults) :
        values \in RevenueSeries }

\* a group of n observations ending in an outlier, its first `old` ones dated before
\* the window, beside a second group, a row without channel and one without date
MixedRows(n, old, other, stray) ==
    LET base == Daily([i \in 1..n |-> IF i = n THEN 1000 ELSE 100], "direct", "new")
        aged == [i \in 1..n |->
                    IF i <= old THEN [base[i] EXCEPT !.order_date = Some(Today(Now0) - 31 - i)]
                    ELSE base[i]]
        second == Daily([i \in 1..other |-> IF i = other - 1 THEN 700 ELSE 300],
                        "marketplace", "vip")
        strays == IF stray
                  THEN << FinancialRow(Some(Today(Now0)), Null, Some("new"), 5000),
                          FinancialRow(Null, Some("direct"), Some("new"), 9000),
                          FinancialRow(Some(Today(Now0)), Some("direct"), Null, 7000) >>
                  ELSE <<>>
    IN  strays \o second \o aged
MixedFamily ==
    { Scenario(FinancialWarehouse(MixedRows(n, old, other, stray)), Null, NoFaults) :
        n \in 6..MaxObs + 1, old \in 0..2, other \in {0, 6, 7}, stray \in BOOLEAN }

\* --- the partner dashboard (volume and margin scans, validity, business rule)
PartnerCols ==
    <<"partner_key", "partner_channel", "customer_segment", "orders_30d",
      "order_growth_30d", "avg_gross_margin_30d", "avg_net_margin_30d", "revenue_30d",
      "overall_health_score", "dashboard_updated_at">>
PartnerRow(key, growth, margin, revenue, health) ==
    [partner_key |-> Some(key), partner_channel |-> Some("direct"),
     customer_segment |-> Some("vip"), orders_30d |-> Some(40),
     order_growth_30d |-> growth, avg_gross_margin_30d |-> margin,
     avg_net_margin_30d |-> Some(10), revenue_30d |-> revenue,
     overall_health_score |-> health, dashboard_updated_at |-> Naive(Hour)]
PartnerWarehouse(cols, rows) ==
    [EmptyWarehouse EXCEPT ![PartnerDashboard] = Table(cols, rows)]
\* the column list without one column (the rows keep the cell: it is never read)
Without(cols, c) == SelectSeq(cols, LAMBDA x : x # c)

GrowthCells == {Null} \cup {Some(g) : g \in {-50, -26, -25, 0, 25, 26, 50, 51}}
MarginCells == {Null} \cup {Some(m) : m \in {-25, -5, -1, 0, 20}}
GrowthFamily ==
    { Scenario(PartnerWarehouse(PartnerCols, rows), cf, NoFaults) :
        rows \in {<<PartnerRow(1, g, Some(20), Some(1000), Some(80))>> : g \in GrowthCells}
                 \cup {<<PartnerRow(1, g, Some(20), Some(1000), Some(80)),
                         PartnerRow(2, h, Some(20), Some(1000), Some(80))>> :
                            g, h \in GrowthCells},
        cf \in ConfigFiles }
MarginFamily ==
    { Scenario(PartnerWarehouse(PartnerCols, rows), cf, NoFaults) :
        rows \in {<<PartnerRow(1, Some(0), m, Some(1000), Some(80))>> : m \in MarginCells}
                 \cup {<<PartnerRow(1, Some(0), m, Some(1000), Some(80)),
                         PartnerRow(2, Some(0), k, Some(1000), Some(80))>> :
                            m, k \in MarginCells},
        cf \in ConfigFiles }
PartnerFamily ==
    { Scenario(PartnerWarehouse(cols, rows), Null, NoFaults) :
        cols \in {PartnerCols, Without(PartnerCols, "avg_net_margin_30d"),
                  Without(PartnerCols, "orders_30d"), Without(PartnerCols, "revenue_30d")},
        rows \in {<<>>}
                 \cup {<<PartnerRow(1, Some(50), Some(0 - 5), r, h)>> :
                        r \in {Null, Some(0 - 1), Some(0), Some(50000), Some(50001)},
                        h \in {Null, Some(0 - 1), Some(0), Some(29), Some(30), Some(100),
                               Some(101)}} }

\* --- alert channels configured, and failures of the store, a table probe, a channel
AlertingConfigs ==
    { [default_config EXCEPT !.alerting =
            [slack_webhook |-> s, email_config |-> [sender_email |-> e, recipient_emails |-> r]]] :
        s \in {Null, Some("https://hooks.example/T0")},
        e \in {Null, Some("monitor@example.com")},
        r \in {<<>>, <<"ops@example.com">>} }
FaultChoices ==
    { [store |-> st, table_exists |-> te, slack |-> sl, smtp |-> sm] :
        st \in BOOLEAN, te \in {{}, {PartnerDashboard}}, sl \in BOOLEAN, sm \in BOOLEAN }
AlertRows ==
    { <<PartnerRow(1, Some(0), Some(20), Some(1000), Some(80))>>,
      <<PartnerRow(1, Some(50), Some(0 - 5), Some(0 - 1), Some(80))>> }
AlertFamily ==
    { Scenario(PartnerWarehouse(PartnerCols, rows), Some(c), f) :
        rows \in AlertRows, c \in AlertingConfigs, f \in FaultChoices }

\* --- several tables at once: a table whose checks fail or whose probe raises, a
\* missing table, and the tables after them in the monitoring list
ProbeFaults ==
    { [NoFaults EXCEPT !.table_exists = te] :
        te \in {{}, {PartnerDashboard}, {FinancialSummary}, {"dim_customer_segments"}} }
SeveralTables(partner, financial, segments) ==
    [EmptyWarehouse EXCEPT ![PartnerDashboard] = partner, ![FinancialSummary] = financial,
                           !["dim_customer_segments"] = segments]
IsolationFamily ==
    { Scenario(SeveralTables(partner, financial, segments), Null, f) :
        partner \in {NoTable, Table(PartnerCols, <<>>),
                     Table(Without(PartnerCols, "revenue_30d"),
                           <<PartnerRow(1, Some(0), Some(20), Some(1000), Some(80))>>),
                     Table(PartnerCols,
                           <<PartnerRow(1, Some(50), Some(20), Some(60000), Some(10))>>)},
        financial \in {NoTable, Table(FinancialCols, <<>>),
                       Table(FinancialCols, Daily(<<100, 100>>, "direct", "vip"))},
        segments \in {Table(SegmentCols, <<>>), Table(SegmentCols, KeyedRows(3, 1, 1))},
        f \in ProbeFaults }

\* --- a run with more than five items of every kind: six stale tables, a dashboard
\* of six rows without keys, with missing, negative and out-of-range cells
StaleTable(column) == Table(<<column>>, <<[c \in {column} |-> Naive(50 * Hour)]>>)
BusyRow(i) ==
    [PartnerRow(i, Some(50), Some(0 - 5),
                IF i <= 2 THEN Null ELSE IF i = 3 THEN Some(0 - 1) ELSE Some(1000),
                IF i <= 2 THEN Null ELSE IF i = 3 THEN Some(101) ELSE Some(80))
        EXCEPT !.partner_key = Null, !.dashboard_updated_at = Naive(50 * Hour)]
BusyWarehouse ==
    [tn \in AllTables |->
        IF tn = PartnerDashboard THEN Table(PartnerCols, [i \in 1..6 |-> BusyRow(i)])
        ELSE IF tn = FinancialSummary THEN StaleTable("summary_created_at")
        ELSE IF tn = "mart_partner_optimization_insights"
             THEN StaleTable("insights_generated_at")
        ELSE IF tn = "mart_cohort_analysis" THEN StaleTable("analysis_created_at")
        ELSE IF tn = "dim_customer_segments" THEN StaleTable("segment_created_at")
        ELSE StaleTable("intelligence_updated_at")]
BusyFamily ==
    { Scenario(BusyWarehouse, Some(c), f) :
        c \in AlertingConfigs,
        f \in {g \in FaultChoices : ~g.store /\ g.table_exists = {}} }

\* --- a second table with the dashboard's columns and rows that break its rules
ScopeRows ==
    { <<PartnerRow(1, Some(0), Some(20), Some(0 - 1), Some(80))>>,
      <<PartnerRow(1, Some(0), Some(20), Some(1000), Some(101)),
        PartnerRow(2, Some(0), Some(20), Some(60000), Some(10))>>,
      <<PartnerRow(1, Some(0), Some(20), Null, Null)>> }
ScopeFamily ==
    { Scenario([EmptyWarehouse EXCEPT ![PartnerDashboard] = partner,
                    !["mart_partner_optimization_insights"] = Table(PartnerCols, other)],
               Null, NoFaults) :
        partner \in {NoTable} \cup {Table(PartnerCols, rows) : rows \in ScopeRows},
        other \in ScopeRows }

\* --- a dashboard of n valid, fresh, complete rows of which k have a high revenue
\* and a low health score, with both alert channels configured or none
RuleRows(n, k) ==
    [i \in 1..n |->
        IF i <= k THEN PartnerRow(i, Some(0), Some(20), Some(60000), Some(10))
        ELSE PartnerRow(i, Some(0), Some(20), Some(1000), Some(80))]
BothChannels ==
    [default_config EXCEPT !.alerting =
        [slack_webhook |-> Some("https://hooks.example/T0"),
         email_config |-> [sender_email |-> Some("monitor@example.com"),
                           recipient_emails |-> <<"ops@example.com">>]]]
RuleFamily ==
    { Scenario(PartnerWarehouse(PartnerCols, RuleRows(n, k)), cf, NoFaults) :
        n \in {1, 2, 10, 20, MaxRows}, k \in 0..3, cf \in {Null, Some(BothChannels)} }

\* --- the three scans in one cycle: a revenue outlier on the last day, a partner row
\* with a growth and a margin anomaly beside a row with neither
ThreeScanFamily ==
    { Scenario(SeveralTables(
                    Table(PartnerCols,
                          << PartnerRow(1, Some(50), Some(0 - 5), Some(1000), Some(80)),
                             PartnerRow(2, Some(0), Some(20), Some(1000), Some(80)) >>),
                    Table(FinancialCols, Daily(OutlierSeries(10), "direct", "vip")),
                    NoTable),
               cf, NoFaults) :
        cf \in {Null, Some(BothChannels)} }

Scenarios ==
    ThreeScanFamily \cup RuleFamily \cup ScopeFamily \cup BusyFamily \cup IsolationFamily
        \cup KeyFamily
        \cup DateFamily \cup StampFamily \cup TwoStampFamily \cup OutlierFamily
        \cup SeriesFamily \cup MixedFamily \cup GrowthFamily \cup MarginFamily
        \cup PartnerFamily \cup AlertFamily

Init ==
    /\ \E sc \in Scenarios :
        /\ warehouse = sc.warehouse
        /\ config_file = sc.config_file
        /\ faults = sc.faults
    /\ db_tables = {}
    /\ db_quality_results = <<>>
    /\ db_anomaly_results = <<>>
    /\ db_monitoring_metrics = <<>>
    /\ config = Null
    /\ quality_results = <<>>
    /\ anomaly_results = <<>>
    /\ pc = "new"
    /\ table_idx = 0
    /\ now = Now0
    /\ cycles = 0
    /\ monitors = 0
    /\ dispatched = <<>>
    /\ alert_messages = <<>>
    /\ tab_content = Null
    /\ report = Null

\* ------------------------------------------------------------- operations
Bookkeeping == {"quality_results", "anomaly_results", "monitoring_metrics"}

\* mutant: the default is used but not written to the config path
init_without_save ==
    /\ pc \in {"new", "idle", "raised"}
    /\ monitors < MaxMonitors
    /\ monitors' = monitors + 1
    /\ quality_results' = <<>>
    /\ anomaly_results' = <<>>
    /\ config' = IF config_file # Null THEN config_file ELSE Some(default_config)
    /\ config_file' = config_file
    /\ db_tables' = db_tables \cup Bookkeeping
    /\ pc' = "idle"
    /\ UNCHANGED << warehouse, db_quality_results, db_anomaly_results,
                    db_monitoring_metrics, table_idx, now, faults, tab_content, cycles,
                    dispatched, alert_messages, report >>

\* DataQualityMonitor(db_path, config_path): load_configuration (the file's content,
\* or the default, which is then saved) and setup_database (CREATE TABLE IF NOT EXISTS)
__init__ ==
    /\ pc \in {"new", "idle", "raised"}
    /\ monitors < MaxMonitors
    /\ monitors' = monitors + 1
    /\ quality_results' = <<>>
    /\ anomaly_results' = <<>>
    /\ config' = IF config_file # Null THEN config_file ELSE Some(default_config)
    /\ config_file' = IF config_file # Null THEN config_file ELSE Some(default_config)
    /\ db_tables' = db_tables \cup Bookkeeping
    /\ pc' = "idle"
    /\ UNCHANGED << warehouse, db_quality_results, db_anomaly_results,
                    db_monitoring_metrics, table_idx, now, faults, tab_content, cycles,
                    dispatched, alert_messages, report >>

\* mutant: self.quality_results is not emptied when a cycle begins
run_monitoring_cycle_keeping_results ==
    /\ pc \in {"idle", "raised"}
    /\ cycles < MaxCycles
    /\ cycles' = cycles + 1
    /\ now' = IF cycles = 0 THEN now ELSE now + Hour
    /\ table_idx' = 1
    /\ pc' = "table"
    /\ UNCHANGED << config_file, warehouse, db_tables, db_quality_results,
                    db_anomaly_results, db_monitoring_metrics, config, quality_results,
                    anomaly_results, faults, tab_content, monitors, dispatched,
                    alert_messages, report >>

\* run_monitoring_cycle is entered and calls run_data_quality_checks, which empties
\* self.quality_results; cycles are run an hour apart
run_monitoring_cycle ==
    /\ pc \in {"idle", "raised"}
    /\ cycles < MaxCycles
    /\ cycles' = cycles + 1
    /\ now' = IF cycles = 0 THEN now ELSE now + Hour
    /\ quality_results' = <<>>
    /\ table_idx' = 1
    /\ pc' = "table"
    /\ UNCHANGED << config_file, warehouse, db_tables, db_quality_results,
                    db_anomaly_results, db_monitoring_metrics, config, anomaly_results,
                    faults, tab_content, monitors, dispatched, alert_messages, report >>

table_accessibility(table_name, at) ==
    _add_quality_result("table_accessibility", table_name, "SYSTEM", "FAIL", R(0, 1),
                        R(1, 1), [text |-> "Table check failed", rate |-> R(0, 1),
                                  a |-> 0, b |-> 0],
                        "HIGH", "None", at)

\* mutant: a missing table or a failed probe ends the loop (break for continue)
next_table_break ==
    /\ pc = "table"
    /\ IF table_idx > Len(Config.monitoring_tables)
       THEN /\ pc' = "store"
            /\ UNCHANGED << quality_results, table_idx >>
       ELSE LET table_name == Config.monitoring_tables[table_idx] IN
            \E raises \in (IF table_name \in faults.table_exists THEN BOOLEAN ELSE {FALSE}) :
                IF raises
                THEN /\ quality_results' =
                            Append(quality_results, table_accessibility(table_name, now))
                     /\ pc' = "store"
                     /\ UNCHANGED table_idx
                ELSE IF ~warehouse[table_name].exists
                THEN /\ pc' = "store"
                     /\ UNCHANGED << quality_results, table_idx >>
                ELSE /\ pc' = "completeness"
                     /\ UNCHANGED << quality_results, table_idx >>
    /\ UNCHANGED << config_file, warehouse, db_tables, db_quality_results,
                    db_anomaly_results, db_monitoring_metrics, config, anomaly_results,
                    now, faults, tab_content, cycles, monitors, dispatched,
                    alert_messages, report >>

\* the head of the loop over config["monitoring_tables"]: the list is done, the
\* probe of the table raises, the table is missing, or its checks begin
next_table ==
    /\ pc = "table"
    /\ IF table_idx > Len(Config.monitoring_tables)
       THEN /\ pc' = "store"
            /\ UNCHANGED << quality_results, table_idx >>
       ELSE LET table_name == Config.monitoring_tables[table_idx] IN
            \E raises \in (IF table_name \in faults.table_exists THEN BOOLEAN ELSE {FALSE}) :
                IF raises
                THEN /\ quality_results' =
                            Append(quality_results, table_accessibility(table_name, now))
                     /\ table_idx' = table_idx + 1
                     /\ pc' = "table"
                ELSE IF ~warehouse[table_name].exists
                THEN /\ table_idx' = table_idx + 1
                     /\ pc' = "table"
                     /\ UNCHANGED quality_results
                ELSE /\ pc' = "completeness"
                     /\ UNCHANGED << quality_results, table_idx >>
    /\ UNCHANGED << config_file, warehouse, db_tables, db_quality_results,
                    db_anomaly_results, db_monitoring_metrics, config, anomaly_results,
                    now, faults, tab_content, cycles, monitors, dispatched,
                    alert_messages, report >>

CurrentTableName == Config.monitoring_tables[table_idx]
CurrentTable == warehouse[CurrentTableName]

\* one check of the current table: its results are appended, the next check follows
CheckStep(at_pc, results, next_pc, next_idx) ==
    /\ pc = at_pc
    /\ quality_results' = quality_results \o results
    /\ pc' = next_pc
    /\ table_idx' = next_idx
    /\ UNCHANGED << config_file, warehouse, db_tables, db_quality_results,
                    db_anomaly_results, db_monitoring_metrics, config, anomaly_results,
                    now, faults, tab_content, cycles, monitors, dispatched,
                    alert_messages, report >>

\* mutant: the uniqueness check follows the completeness check
check_data_completeness_then_uniqueness ==
    CheckStep("completeness",
              _check_data_completeness(Config, CurrentTableName, CurrentTable, now),
              "uniqueness", table_idx)
check_data_completeness ==
    CheckStep("completeness",
              _check_data_completeness(Config, CurrentTableName, CurrentTable, now),
              "freshness", table_idx)
check_data_freshness ==
    CheckStep("freshness",
              _check_data_freshness(Config, CurrentTableName, CurrentTable, now),
              "uniqueness", table_idx)
check_data_uniqueness ==
    CheckStep("uniqueness", _check_data_uniqueness(CurrentTableName, CurrentTable, now),
              "validity", table_idx)
check_data_validity ==
    CheckStep("validity", _check_data_validity(CurrentTableName, CurrentTable, now),
              "business_rules", table_idx)
\* mutant: the business-rule check deletes the rows that break the rule
check_business_rules_cleaning ==
    /\ pc = "business_rules"
    /\ quality_results' =
            quality_results \o _check_business_rules(CurrentTableName, CurrentTable, now)
    /\ warehouse' =
            [warehouse EXCEPT ![CurrentTableName] =
                IF CurrentTableName = PartnerDashboard
                        /\ HasColumns(CurrentTable, {"revenue_30d", "overall_health_score"})
                THEN Table(CurrentTable.cols,
                           SelectSeq(CurrentTable.rows,
                                     LAMBDA row : ~high_revenue_low_health(row)))
                ELSE CurrentTable]
    /\ pc' = "table"
    /\ table_idx' = table_idx + 1
    /\ UNCHANGED << config_file, db_tables, db_quality_results, db_anomaly_results,
                    db_monitoring_metrics, config, anomaly_results, now, faults,
                    tab_content, cycles, monitors, dispatched, alert_messages, report >>

check_business_rules ==
    CheckStep("business_rules", _check_business_rules(CurrentTableName, CurrentTable, now),
              "table", table_idx + 1)

\* the rows INSERTed for the results, ids continuing the table's
stored_rows(results, first_id) ==
    [i \in 1..Len(results) |->
        [ id |-> first_id + i - 1, check_name |-> results[i].check_name,
          table_name |-> results[i].table_name, column_name |-> results[i].column_name,
          check_type |-> results[i].check_type, status |-> results[i].status,
          value |-> results[i].value, threshold |-> results[i].threshold,
          message |-> results[i].message, timestamp |-> results[i].timestamp,
          severity |-> results[i].severity ]]

\* mutant: the table is rewritten with the results of the run (INSERT OR REPLACE with
\* ids restarting at 1)
store_replacing_rows ==
    /\ pc = "store"
    /\ pc' = "detect"
    /\ db_quality_results' = stored_rows(quality_results, 1)
    /\ UNCHANGED << config_file, warehouse, db_tables, db_anomaly_results,
                    db_monitoring_metrics, config, quality_results, anomaly_results,
                    table_idx, now, faults, tab_content, cycles, monitors, dispatched,
                    alert_messages, report >>

\* mutant: every INSERT is committed on its own (isolation_level=None): the rows
\* before the one that raised stay
store_autocommit ==
    /\ pc = "store"
    /\ \E raises \in (IF faults.store THEN BOOLEAN ELSE {FALSE}) :
        IF raises
        THEN /\ pc' = "raised"
             /\ \E done \in 0..Len(quality_results) :
                    db_quality_results' =
                        db_quality_results
                            \o stored_rows(SubSeq(quality_results, 1, done),
                                           Len(db_quality_results) + 1)
        ELSE /\ pc' = "detect"
             /\ db_quality_results' =
                    db_quality_results
                        \o stored_rows(quality_results, Len(db_quality_results) + 1)
    /\ UNCHANGED << config_file, warehouse, db_tables, db_anomaly_results,
                    db_monitoring_metrics, config, quality_results, anomaly_results,
                    table_idx, now, faults, tab_content, cycles, monitors, dispatched,
                    alert_messages, report >>

\* one transaction: committed when every INSERT went through, rolled back when one
\* raised, and then the exception leaves run_monitoring_cycle
_store_quality_results ==
    /\ pc = "store"
    /\ \E raises \in (IF faults.store THEN BOOLEAN ELSE {FALSE}) :
        IF raises
        THEN /\ pc' = "raised"
             /\ UNCHANGED db_quality_results
        ELSE /\ pc' = "detect"
             /\ db_quality_results' =
                    db_quality_results
                        \o stored_rows(quality_results, Len(db_quality_results) + 1)
    /\ UNCHANGED << config_file, warehouse, db_tables, db_anomaly_results,
                    db_monitoring_metrics, config, quality_results, anomaly_results,
                    table_idx, now, faults, tab_content, cycles, monitors, dispatched,
                    alert_messages, report >>

\* detect_anomalies empties self.anomaly_results, then runs the three scans
DetectStep(at_pc, results, next_pc) ==
    /\ pc = at_pc
    /\ anomaly_results' = results
    /\ pc' = next_pc
    /\ UNCHANGED << config_file, warehouse, db_tables, db_quality_results,
                    db_anomaly_results, db_monitoring_metrics, config, quality_results,
                    table_idx, now, faults, tab_content, cycles, monitors, dispatched,
                    alert_messages, report >>

detect_anomalies == DetectStep("detect", <<>>, "revenue")
detect_revenue_anomalies ==
    DetectStep("revenue",
               anomaly_results \o _detect_revenue_anomalies(warehouse[FinancialSummary], now),
               "volume")
detect_volume_anomalies ==
    DetectStep("volume",
               anomaly_results
                    \o _detect_volume_anomalies(warehouse[PartnerDashboard], Config, now),
               "margin")
detect_margin_anomalies ==
    DetectStep("margin",
               anomaly_results
                    \o _detect_margin_anomalies(warehouse[PartnerDashboard], Config, now),
               "alerts")

\* mutant: a failed post to the webhook ends send_alerts before the mail is tried
send_alerts_until_failure ==
    /\ pc = "alerts"
    /\ LET critical_issues == SelectSeq(quality_results, is_critical)
           high_issues == SelectSeq(quality_results, is_high)
           anomalies == SelectSeq(anomaly_results, is_flagged)
           alert_message ==
                _generate_alert_message(critical_issues, high_issues, anomalies, now)
           email_config == Config.alerting.email_config
       IN  IF critical_issues # <<>> \/ high_issues # <<>> \/ anomalies # <<>>
           THEN /\ alert_messages' = Append(alert_messages, alert_message)
                /\ \E slack_fails \in (IF faults.slack THEN BOOLEAN ELSE {FALSE}),
                      smtp_fails \in (IF faults.smtp THEN BOOLEAN ELSE {FALSE}) :
                    dispatched' =
                        dispatched
                        \o (IF Config.alerting.slack_webhook # Null
                            THEN << [channel |-> "slack", message |-> alert_message,
                                     delivered |-> ~slack_fails] >>
                            ELSE <<>>)
                        \o (IF email_config.sender_email # Null
                                /\ email_config.recipient_emails # <<>>
                                /\ ~(Config.alerting.slack_webhook # Null /\ slack_fails)
                            THEN << [channel |-> "email",
                                     message |-> plain_message(alert_message),
                                     delivered |-> ~smtp_fails] >>
                            ELSE <<>>)
           ELSE UNCHANGED << dispatched, alert_messages >>
    /\ pc' = "report"
    /\ UNCHANGED << config_file, warehouse, db_tables, db_quality_results,
                    db_anomaly_results, db_monitoring_metrics, config, quality_results,
                    anomaly_results, table_idx, now, faults, tab_content, cycles,
                    monitors, report >>

\* mutant: the mail is sent whenever a sender is set, recipients or not
send_alerts_sender_only ==
    /\ pc = "alerts"
    /\ LET critical_issues == SelectSeq(quality_results, is_critical)
           high_issues == SelectSeq(quality_results, is_high)
           anomalies == SelectSeq(anomaly_results, is_flagged)
           alert_message ==
                _generate_alert_message(critical_issues, high_issues, anomalies, now)
           email_config == Config.alerting.email_config
       IN  IF critical_issues # <<>> \/ high_issues # <<>> \/ anomalies # <<>>
           THEN /\ alert_messages' = Append(alert_messages, alert_message)
                /\ \E slack_fails \in (IF faults.slack THEN BOOLEAN ELSE {FALSE}),
                      smtp_fails \in (IF faults.smtp THEN BOOLEAN ELSE {FALSE}) :
                    dispatched' =
                        dispatched
                        \o (IF Config.alerting.slack_webhook # Null
                            THEN << [channel |-> "slack", message |-> alert_message,
                                     delivered |-> ~slack_fails] >>
                            ELSE <<>>)
                        \o (IF email_config.sender_email # Null
                            THEN << [channel |-> "email",
                                     message |-> plain_message(alert_message),
                                     delivered |-> ~smtp_fails] >>
                            ELSE <<>>)
           ELSE UNCHANGED << dispatched, alert_messages >>
    /\ pc' = "report"
    /\ UNCHANGED << config_file, warehouse, db_tables, db_quality_results,
                    db_anomaly_results, db_monitoring_metrics, config, quality_results,
                    anomaly_results, table_idx, now, faults, tab_content, cycles,
                    monitors, report >>

\* send_alerts: one message for the run, posted to the webhook when one is set,
\* mailed as plain text when a sender is set and there are recipients; a failed send
\* (an exception, a response other than 200) is logged
send_alerts ==
    /\ pc = "alerts"
    /\ LET critical_issues == SelectSeq(quality_results, is_critical)
           high_issues == SelectSeq(quality_results, is_high)
           anomalies == SelectSeq(anomaly_results, is_flagged)
           alert_message ==
                _generate_alert_message(critical_issues, high_issues, anomalies, now)
           email_config == Config.alerting.email_config
       IN  IF critical_issues # <<>> \/ high_issues # <<>> \/ anomalies # <<>>
           THEN /\ alert_messages' = Append(alert_messages, alert_message)
                /\ \E slack_fails \in (IF faults.slack THEN BOOLEAN ELSE {FALSE}),
                      smtp_fails \in (IF faults.smtp THEN BOOLEAN ELSE {FALSE}) :
                    dispatched' =
                        dispatched
                        \o (IF Config.alerting.slack_webhook # Null
                            THEN << [channel |-> "slack", message |-> alert_message,
                                     delivered |-> ~slack_fails] >>
                            ELSE <<>>)
                        \o (IF email_config.sender_email # Null
                                /\ email_config.recipient_emails # <<>>
                            THEN << [channel |-> "email",
                                     message |-> plain_message(alert_message),
                                     delivered |-> ~smtp_fails] >>
                            ELSE <<>>)
           ELSE UNCHANGED << dispatched, alert_messages >>
    /\ pc' = "report"
    /\ UNCHANGED << config_file, warehouse, db_tables, db_quality_results,
                    db_anomaly_results, db_monitoring_metrics, config, quality_results,
                    anomaly_results, table_idx, now, faults, tab_content, cycles,
                    monitors, report >>

\* generate_quality_report, returned by run_monitoring_cycle
return_report ==
    /\ pc = "report"
    /\ report' = Some(generate_quality_report(quality_results, anomaly_results, now))
    /\ pc' = "idle"
    /\ UNCHANGED << config_file, warehouse, db_tables, db_quality_results,
                    db_anomaly_results, db_monitoring_metrics, config, quality_results,
                    anomaly_results, table_idx, now, faults, tab_content, cycles,
                    monitors, dispatched, alert_messages >>

\* the dashboard's callback for the tab the user selects; the builders of the
\* charts in `failed` (none, one or all of the tab's) raise, the model fit of the
\* forecast may raise
render_tab_content ==
    /\ pc \in {"new", "dashboard"}
    /\ pc' = "dashboard"
    /\ \E active_tab \in Range(Tabs) \cup {"none"} :
        IF active_tab = "predictive-analytics"
        THEN \E fit_raises \in BOOLEAN :
                tab_content' = Some(create_predictive_analytics_tab(warehouse, fit_raises, now))
        ELSE IF active_tab = "none"
        THEN tab_content' = Some(TabContent(active_tab, FALSE, "select_a_tab", <<>>))
        ELSE \E failed \in {{}, Range(tab_charts(active_tab))}
                            \cup {{c} : c \in Range(tab_charts(active_tab))} :
                tab_content' = Some(create_tab(active_tab, warehouse, failed, now))
    /\ UNCHANGED << config_file, warehouse, db_tables, db_quality_results,
                    db_anomaly_results, db_monitoring_metrics, config, quality_results,
                    anomaly_results, table_idx, now, faults, cycles, monitors, dispatched,
                    alert_messages, report >>

Next ==
    \/ render_tab_content
    \/ __init__
    \/ run_monitoring_cycle
    \/ next_table
    \/ check_data_completeness
    \/ check_data_freshness
    \/ check_data_uniqueness
    \/ check_data_validity
    \/ check_business_rules
    \/ _store_quality_results
    \/ detect_anomalies
    \/ detect_revenue_anomalies
    \/ detect_volume_anomalies
    \/ detect_margin_anomalies
    \/ send_alerts
    \/ return_report

Spec == Init /\ [][Next]_vars

\* ------------------------------------------------------------- properties
ResultsOf(check_type) ==
    {i \in 1..Len(quality_results) : quality_results[i].check_type = check_type}
NonNull(t, column) == {i \in 1..Len(t.rows) : t.rows[i][column] # Null}

\* C1: re-running the monitor, with the same or a newly constructed monitor object,
\* never updates or deletes a stored row of quality_results: in every step the old
\* rows are still there, unchanged and in place, and rows are only added.
C1_AppendOnly ==
    [][ /\ Len(db_quality_results') >= Len(db_quality_results)
        /\ SubSeq(db_quality_results', 1, Len(db_quality_results)) = db_quality_results
      ]_vars

\* a second run, by a second monitor object, has stored its rows after the first run's
C1_Witness ==
    /\ cycles = 2 /\ monitors = 2 /\ pc = "detect"
    /\ Len(db_quality_results) >= 2
    /\ db_quality_results[1].timestamp # db_quality_results[Len(db_quality_results)].timestamp

\* C2: every anomaly result produced by detect_anomalies is a row of table
\* anomaly_results once the scans are done (one stored row per anomaly of the run).
C2_AnomaliesPersisted ==
    pc \in {"alerts", "report"} =>
        \A i \in 1..Len(anomaly_results) :
            \E j \in 1..Len(db_anomaly_results) :
                /\ db_anomaly_results[j].metric_name = anomaly_results[i].metric_name
                /\ db_anomaly_results[j].current_value = anomaly_results[i].current_value

\* C3: a completeness result is recorded for every critical column of a table that
\* has rows, and every completeness result has status PASS iff the share of
\* non-null cells is at least the configured data_completeness, severity HIGH iff
\* the share is below 0.80, MEDIUM iff it is in [0.80, 0.95), else LOW.
C3_CriticalColumns ==
    {"partner_key", "customer_key", "_key", "revenue_30d", "overall_health_score",
     "order_date"}
C3_Rule(r) ==
    LET t == warehouse[r.table_name]
        filled == Cardinality(NonNull(t, r.column_name))
        total == Len(t.rows)
        bar == Config.thresholds.data_completeness
    IN  /\ r.column_name \in C3_CriticalColumns \cap Range(t.cols)
        /\ total > 0
        /\ r.value.num * total = filled * r.value.den
        /\ r.threshold = bar
        /\ (r.status = "PASS") = (filled * bar.den >= bar.num * total)
        /\ r.status \in {"PASS", "FAIL"}
        /\ (r.severity = "HIGH") = (100 * filled < 80 * total)
        /\ (r.severity = "MEDIUM") = (100 * filled >= 80 * total /\ 100 * filled < 95 * total)
        /\ (r.severity = "LOW") = (100 * filled >= 95 * total)
C3_Completeness ==
    /\ \A i \in ResultsOf("COMPLETENESS") : C3_Rule(quality_results[i])
    /\ (pc = "freshness" /\ Len(CurrentTable.rows) > 0) =>
            \A column \in C3_CriticalColumns \cap Range(CurrentTable.cols) :
                Cardinality({i \in ResultsOf("COMPLETENESS") :
                                /\ quality_results[i].table_name = CurrentTableName
                                /\ quality_results[i].column_name = column}) = 1

\* 19 of 20 dates are filled: exactly at the default bar, PASS with severity LOW
C3_Witness ==
    \E i \in ResultsOf("COMPLETENESS") :
        /\ quality_results[i].column_name = "order_date"
        /\ quality_results[i].value = R(19, 20)
        /\ quality_results[i].threshold = R(95, 100)
        /\ quality_results[i].status = "PASS"
        /\ quality_results[i].severity = "LOW"

\* C4: a freshness result is for the first candidate of timestamp_columns that is a
\* column of the table; with the age being the time since that column's latest
\* timestamp, status is PASS iff age <= data_freshness_hours, severity CRITICAL iff
\* age > 48 h, HIGH iff 24 h < age <= 48 h, else LOW.
C4_Rule(r) ==
    LET t == warehouse[r.table_name]
        stamps == {t.rows[i][r.column_name][1].secs : i \in NonNull(t, r.column_name)}
        bar == Config.thresholds.data_freshness_hours
    IN  /\ r.column_name \in Range(t.cols)
        /\ \E k \in 1..Len(timestamp_columns) :
                /\ timestamp_columns[k] = r.column_name
                /\ \A j \in 1..(k - 1) : timestamp_columns[j] \notin Range(t.cols)
        /\ \E latest \in stamps :
                /\ \A s \in stamps : s <= latest
                /\ LET age == r.timestamp - latest IN
                    /\ r.value.num * 3600 = age * r.value.den
                    /\ (r.status = "PASS") = (age * bar.den <= bar.num * 3600)
                    /\ r.status \in {"PASS", "FAIL"}
                    /\ (r.severity = "CRITICAL") = (age > 48 * 3600)
                    /\ (r.severity = "HIGH") = (age > 24 * 3600 /\ age <= 48 * 3600)
                    /\ (r.severity = "LOW") = (age <= 24 * 3600)
C4_Freshness ==
    /\ \A i \in ResultsOf("FRESHNESS") : C4_Rule(quality_results[i])
    /\ pc = "uniqueness" =>
            Cardinality({i \in ResultsOf("FRESHNESS") :
                            quality_results[i].table_name = CurrentTableName}) <= 1

\* the table also has segment_created_at, a later candidate stored first: the result
\* is for analysis_created_at, 30 hours old
C4_Witness ==
    \E i \in ResultsOf("FRESHNESS") :
        /\ quality_results[i].column_name = "analysis_created_at"
        /\ "segment_created_at" \in Range(warehouse[quality_results[i].table_name].cols)
        /\ quality_results[i].status = "FAIL"
        /\ quality_results[i].severity = "HIGH"

\* C5: after the uniqueness check of a table, every '_key' column whose cells are
\* pairwise distinct has a uniqueness result with status PASS and value 1.0,
\* whatever the table holds (no rows, NULL cells).
C5_PairwiseDistinct(t, column) ==
    \A i, j \in 1..Len(t.rows) : i # j => t.rows[i][column] # t.rows[j][column]
C5_DistinctAlwaysPasses ==
    pc = "validity" =>
        \A column \in {"partner_key", "customer_key", "_key"} \cap Range(CurrentTable.cols) :
            C5_PairwiseDistinct(CurrentTable, column) =>
                \E i \in ResultsOf("UNIQUENESS") :
                    /\ quality_results[i].table_name = CurrentTableName
                    /\ quality_results[i].column_name = column
                    /\ quality_results[i].status = "PASS"
                    /\ quality_results[i].value.num = quality_results[i].value.den

\* C6: a uniqueness result has as value the number of distinct non-null keys over
\* the number of rows, threshold 1.0, status PASS exactly when the value is 1.0 and
\* FAIL otherwise, severity HIGH iff the value is below 0.90 and MEDIUM otherwise.
C6_Rule(r) ==
    LET t == warehouse[r.table_name]
        keys == {t.rows[i][r.column_name] : i \in NonNull(t, r.column_name)}
        total == Len(t.rows)
    IN  /\ r.column_name \in {"partner_key", "customer_key", "_key"}
        /\ total > 0
        /\ r.value.num * total = Cardinality(keys) * r.value.den
        /\ r.threshold = R(1, 1)
        /\ (r.status = "PASS") = (Cardinality(keys) = total)
        /\ (r.status = "FAIL") = (Cardinality(keys) # total)
        /\ (r.severity = "HIGH") = (100 * Cardinality(keys) < 90 * total)
        /\ (r.severity = "MEDIUM") = (100 * Cardinality(keys) >= 90 * total)
C6_Uniqueness == \A i \in ResultsOf("UNIQUENESS") : C6_Rule(quality_results[i])

\* a passing uniqueness result over ten distinct keys: its severity is MEDIUM
C6_Witness ==
    \E i \in ResultsOf("UNIQUENESS") :
        /\ quality_results[i].value = R(10, 10)
        /\ quality_results[i].status = "PASS"
        /\ quality_results[i].severity = "MEDIUM"

\* --- the scans
AnomaliesOf(metric_name) ==
    {i \in 1..Len(anomaly_results) : anomaly_results[i].metric_name = metric_name}

RECURSIVE SumOver(_, _)
\* the sum of f over a finite set of indices
SumOver(S, f) ==
    IF S = {} THEN 0
    ELSE LET x == CHOOSE y \in S : TRUE IN f[x] + SumOver(S \ {x}, f)

Financial == warehouse[FinancialSummary]
\* the observations of a channel x segment group in the 30-day window, as row numbers
Observations(channel, segment) ==
    {i \in 1..Len(Financial.rows) :
        /\ Financial.rows[i].partner_channel = Some(channel)
        /\ Financial.rows[i].customer_segment = Some(segment)
        /\ Financial.rows[i].order_date # Null
        /\ Financial.rows[i].order_date[1] >= (now \div 86400) - 30}
Revenue(i) == Financial.rows[i].daily_revenue[1]
\* no more than two observations of the group are dated after observation i
AmongLast3(obs, i) ==
    Cardinality({j \in obs : Financial.rows[j].order_date[1]
                                > Financial.rows[i].order_date[1]}) < 3
GroupSum(obs) == SumOver(obs, [i \in obs |-> Revenue(i)])
GroupSquares(obs) == SumOver(obs, [i \in obs |-> Revenue(i) * Revenue(i)])
\* n^2 times the population variance
GroupSpread(obs) == Cardinality(obs) * GroupSquares(obs) - GroupSum(obs) * GroupSum(obs)
\* |value - mean| / std > 2, squared and cleared of denominators
Deviates(obs, i) ==
    LET d == Cardinality(obs) * Revenue(i) - GroupSum(obs)
    IN  d * d > 4 * GroupSpread(obs)
Anomalous(obs, i) ==
    /\ Cardinality(obs) >= 7
    /\ GroupSpread(obs) > 0
    /\ AmongLast3(obs, i)
    /\ Deviates(obs, i)

\* the table holds one group of ten observations in the window, nine of 100 and
\* one of 1000
C7_OutlierGroup ==
    /\ Financial.exists
    /\ Len(Financial.rows) = 10
    /\ Cardinality(Observations("direct", "vip")) = 10
    /\ Cardinality({i \in 1..10 : Revenue(i) = 100}) = 9
    /\ Cardinality({i \in 1..10 : Revenue(i) = 1000}) = 1
C7_OutlierRecorded ==
    \E i \in AnomaliesOf("daily_revenue") :
        /\ anomaly_results[i].current_value = R(1000, 1)
        /\ ScoreGt(anomaly_results[i].anomaly_score, 2)

\* C7 (as claimed): after the revenue scan of such a group an anomaly with score
\* above 2 is recorded for the outlier, wherever the outlier lies in the series.
C7_AnyPosition ==
    (pc = "volume" /\ C7_OutlierGroup) => C7_OutlierRecorded

\* C7 (amended): the anomaly is recorded exactly when the outlier is one of the last
\* three observations by date; it is then the only revenue anomaly and its score is 3.
C7_LastThreeOnly ==
    (pc = "volume" /\ C7_OutlierGroup) =>
        LET obs == Observations("direct", "vip")
            outlier == CHOOSE i \in obs : Revenue(i) = 1000
        IN  /\ C7_OutlierRecorded = AmongLast3(obs, outlier)
            /\ Cardinality(AnomaliesOf("daily_revenue")) =
                    (IF AmongLast3(obs, outlier) THEN 1 ELSE 0)
            /\ \A i \in AnomaliesOf("daily_revenue") :
                    /\ anomaly_results[i].current_value = R(1000, 1)
                    /\ anomaly_results[i].anomaly_score.root = 2
                    /\ anomaly_results[i].anomaly_score.num
                            = 9 * anomaly_results[i].anomaly_score.den

\* the outlier is the eighth of the ten days, stored in reverse date order
C7_Witness ==
    /\ pc = "volume" /\ C7_OutlierGroup /\ C7_OutlierRecorded
    /\ Revenue(3) = 1000
    /\ Financial.rows[1].order_date[1] > Financial.rows[10].order_date[1]

\* C8: after the revenue scan, the anomalies recorded for a group are those of its
\* observations that are among its last 3 by date and deviate from the population
\* mean by more than 2 population standard deviations, provided the group has at
\* least 7 observations in the window and a non-zero deviation; each carries the
\* group mean as expected value, |value - mean| as deviation and |z| as score.
C8_Groups == {"direct", "marketplace"} \X {"new", "vip"}
C8_Values == {Revenue(i) : i \in 1..Len(Financial.rows)}
C8_Recorded(g, v) ==
    {i \in AnomaliesOf("daily_revenue") :
        /\ anomaly_results[i].context.partner_channel = g[1]
        /\ anomaly_results[i].context.customer_segment = g[2]
        /\ anomaly_results[i].current_value = R(v, 1)}
C8_Queryable ==
    /\ Financial.exists
    /\ {"order_date", "partner_channel", "customer_segment", "daily_revenue",
        "revenue_growth_30d"} \subseteq Range(Financial.cols)
C8_RevenueAnomalies ==
    (pc = "volume" /\ C8_Queryable) =>
        /\ \A g \in C8_Groups : \A v \in C8_Values :
            LET obs == Observations(g[1], g[2]) IN
            /\ Cardinality(C8_Recorded(g, v))
                = Cardinality({i \in obs : Revenue(i) = v /\ Anomalous(obs, i)})
            /\ \A k \in C8_Recorded(g, v) :
                LET a == anomaly_results[k]
                    n == Cardinality(obs)
                    d == n * v - GroupSum(obs)
                IN  /\ a.is_anomaly
                    /\ a.table_name = FinancialSummary
                    /\ a.expected_value.num * n = GroupSum(obs) * a.expected_value.den
                    /\ a.deviation.num * n = Abs(d) * a.deviation.den
                    /\ a.anomaly_score = Sqrt(d * d, GroupSpread(obs))
        /\ \A k \in AnomaliesOf("daily_revenue") :
            \E g \in C8_Groups : \E v \in C8_Values : k \in C8_Recorded(g, v)

\* a group of exactly 7 observations in the window (an eighth is older) with an anomaly
C8_Witness ==
    /\ pc = "volume"
    /\ Cardinality(Observations("direct", "new")) = 7
    /\ \E i \in 1..Len(Financial.rows) :
            /\ Financial.rows[i].partner_channel = Some("direct")
            /\ Financial.rows[i].order_date # Null
            /\ Financial.rows[i].order_date[1] < (now \div 86400) - 30
    /\ C8_Recorded(<<"direct", "new">>, 1000) # {}

\* C9: after the volume scan, the anomalies with metric order_volume_growth are, row
\* for row, the dashboard rows whose |order_growth_30d| is strictly above the
\* configured threshold; each has is_anomaly = TRUE and score |growth| / threshold
\* (growth 0.5 with threshold 0.25 gives 2.0); a growth equal to the threshold, or
\* no growth value, records nothing.
Partner == warehouse[PartnerDashboard]
C9_Queryable ==
    /\ Partner.exists
    /\ {"partner_channel", "customer_segment", "orders_30d", "order_growth_30d"}
            \subseteq Range(Partner.cols)
C9_Exceeds(growth) ==
    LET bar == Config.thresholds.order_volume_anomaly_threshold
    IN  Abs(growth) * bar.den > bar.num * 100
C9_VolumeAnomalies ==
    (pc \in {"margin", "alerts", "report"} /\ C9_Queryable) =>
        LET bar == Config.thresholds.order_volume_anomaly_threshold IN
        /\ \A growth \in -100..100 :
            Cardinality({i \in AnomaliesOf("order_volume_growth") :
                            anomaly_results[i].current_value = R(growth, 100)})
              = Cardinality({i \in 1..Len(Partner.rows) :
                                /\ Partner.rows[i].order_growth_30d = <<growth>>
                                /\ C9_Exceeds(growth)})
        /\ Cardinality(AnomaliesOf("order_volume_growth"))
              = Cardinality({i \in 1..Len(Partner.rows) :
                                /\ Partner.rows[i].order_growth_30d # Null
                                /\ C9_Exceeds(Partner.rows[i].order_growth_30d[1])})
        /\ \A i \in AnomaliesOf("order_volume_growth") :
            LET a == anomaly_results[i] IN
            /\ a.is_anomaly
            /\ a.current_value.den = 100
            /\ a.anomaly_score.root = 1
            /\ a.anomaly_score.num * bar.num * 100
                    = Abs(a.current_value.num) * bar.den * a.anomaly_score.den
            /\ (a.current_value = R(50, 100) /\ bar = R(25, 100)) =>
                    a.anomaly_score.num = 2 * a.anomaly_score.den

\* growth 0.5 is recorded with score 2.0 beside a row at exactly the threshold 0.25
C9_Witness ==
    /\ pc = "margin" /\ C9_Queryable
    /\ Config.thresholds.order_volume_anomaly_threshold = R(25, 100)
    /\ Len(Partner.rows) = 2
    /\ Partner.rows[1].order_growth_30d = <<25>>
    /\ Partner.rows[2].order_growth_30d = <<50>>
    /\ Cardinality(AnomaliesOf("order_volume_growth")) = 1

\* C10: after the margin scan, the anomalies with metric gross_margin are, row for
\* row, the dashboard rows with avg_gross_margin_30d < 0 (0 is not flagged); each has
\* expected value 0.2 and score |margin - 0.2| / 0.2 (1.25 for -0.05), whatever
\* margin_anomaly_threshold is configured.
C10_Queryable ==
    /\ Partner.exists
    /\ {"partner_channel", "customer_segment", "avg_gross_margin_30d", "avg_net_margin_30d"}
            \subseteq Range(Partner.cols)
C10_MarginAnomalies ==
    (pc \in {"alerts", "report"} /\ C10_Queryable) =>
        /\ \A margin \in -100..100 :
            Cardinality({i \in AnomaliesOf("gross_margin") :
                            anomaly_results[i].current_value = R(margin, 100)})
              = Cardinality({i \in 1..Len(Partner.rows) :
                                /\ Partner.rows[i].avg_gross_margin_30d = <<margin>>
                                /\ margin < 0})
        /\ Cardinality(AnomaliesOf("gross_margin"))
              = Cardinality({i \in 1..Len(Partner.rows) :
                                /\ Partner.rows[i].avg_gross_margin_30d # Null
                                /\ Partner.rows[i].avg_gross_margin_30d[1] < 0})
        /\ \A i \in AnomaliesOf("gross_margin") :
            LET a == anomaly_results[i] IN
            /\ a.is_anomaly
            /\ a.current_value.den = 100
            /\ a.expected_value.num * 10 = 2 * a.expected_value.den
            /\ a.anomaly_score.root = 1
            /\ a.anomaly_score.num * 20
                    = Abs(a.current_value.num - 20) * a.anomaly_score.den
            /\ a.current_value = R(0 - 5, 100) =>
                    a.anomaly_score.num * 4 = 5 * a.anomaly_score.den

\* margin -0.05 is recorded, beside a row with margin 0, under a configured
\* margin_anomaly_threshold of 0.30
C10_Witness ==
    /\ pc = "alerts" /\ C10_Queryable
    /\ Config.thresholds.margin_anomaly_threshold = R(30, 100)
    /\ Len(Partner.rows) = 2
    /\ Partner.rows[1].avg_gross_margin_30d = <<0>>
    /\ Partner.rows[2].avg_gross_margin_30d = <<0 - 5>>
    /\ Cardinality(AnomaliesOf("gross_margin")) = 1

\* C11: the report's success_rate is passed_checks / total_checks when there are
\* checks, and 0 when there are none (no division by zero); passed_checks counts the
\* PASS results of the run, total_checks all of them, and the rate lies in [0, 1].
C11_Report == Val(report)
C11_SuccessRate ==
    report # Null =>
        LET summary == C11_Report.summary
            results == C11_Report.quality_results
        IN  /\ summary.total_checks = Len(results)
            /\ summary.passed_checks
                    = Cardinality({i \in 1..Len(results) : results[i].status = "PASS"})
            /\ summary.success_rate.den > 0
            /\ summary.total_checks > 0 =>
                    summary.success_rate.num * summary.total_checks
                        = summary.passed_checks * summary.success_rate.den
            /\ summary.total_checks = 0 => summary.success_rate.num = 0
            /\ 0 <= summary.success_rate.num
            /\ summary.success_rate.num <= summary.success_rate.den

\* a cycle that recorded no result at all returned a report with success_rate 0
C11_Witness ==
    /\ pc = "idle" /\ cycles > 0 /\ report # Null
    /\ quality_results = <<>>
    /\ C11_Report.summary.total_checks = 0
    /\ C11_Report.summary.success_rate = R(0, 1)

\* C12: when the loop over the monitoring list is over, every table of the list has
\* been visited, whatever failed before it: each existing table has either its five
\* checks' results, in the order completeness, freshness, uniqueness, validity,
\* business rule (a check that raised contributes what it recorded before raising),
\* or, when its probe raised, the one table_accessibility result; a missing table has
\* none; and after the store, the run's results are the last rows of quality_results.
C12_AfterLoop == {"store", "detect", "revenue", "volume", "margin", "alerts", "report"}
C12_ResultsFor(table_name) ==
    SelectSeq(quality_results, LAMBDA r : r.table_name = table_name)
C12_FiveChecks(table_name) ==
    _check_data_completeness(Config, table_name, warehouse[table_name], now)
        \o _check_data_freshness(Config, table_name, warehouse[table_name], now)
        \o _check_data_uniqueness(table_name, warehouse[table_name], now)
        \o _check_data_validity(table_name, warehouse[table_name], now)
        \o _check_business_rules(table_name, warehouse[table_name], now)
C12_Stored ==
    LET n == Len(quality_results)
        m == Len(db_quality_results)
    IN  /\ m >= n
        /\ SubSeq(db_quality_results, m - n + 1, m) = stored_rows(quality_results, m - n + 1)
C12_IsolateAndContinue ==
    /\ pc \in C12_AfterLoop => table_idx = Len(Config.monitoring_tables) + 1
    /\ pc = "detect" => C12_Stored
    /\ pc = "store" =>
        /\ \A k \in 1..Len(Config.monitoring_tables) :
            LET table_name == Config.monitoring_tables[k] IN
            IF ~warehouse[table_name].exists
            THEN C12_ResultsFor(table_name)
                    \in {<<>>} \cup (IF table_name \in faults.table_exists
                                     THEN {<<table_accessibility(table_name, now)>>}
                                     ELSE {})
            ELSE C12_ResultsFor(table_name)
                    \in {C12_FiveChecks(table_name)}
                        \cup (IF table_name \in faults.table_exists
                              THEN {<<table_accessibility(table_name, now)>>}
                              ELSE {})

\* the dashboard's validity check raised on a missing column, the financial summary
\* is missing, and the later dim_customer_segments still got its checks and is stored
C12_Witness ==
    /\ pc = "detect"
    /\ warehouse[PartnerDashboard].exists
    /\ ~HasColumns(warehouse[PartnerDashboard], {"revenue_30d"})
    /\ ~warehouse[FinancialSummary].exists
    /\ Len(warehouse["dim_customer_segments"].rows) = 3
    /\ C12_ResultsFor("dim_customer_segments") # <<>>
    /\ C12_ResultsFor("dim_customer_segments") = C12_FiveChecks("dim_customer_segments")
    /\ C12_Stored

\* C13: in a cycle, one summary is composed, and only one, exactly when the run has
\* a result of severity CRITICAL or HIGH or an anomaly; its three headers carry the
\* full counts and each category lists its first five items at most, in order; every
\* channel that is configured gets one send of that summary (text for the webhook,
\* the same summary as plain text by mail); when the run has no such result nothing
\* is composed or sent.
C13_Critical == SelectSeq(quality_results, LAMBDA r : r.severity = "CRITICAL")
C13_High == SelectSeq(quality_results, LAMBDA r : r.severity = "HIGH")
C13_Composed == SelectSeq(alert_messages, LAMBDA m : m.timestamp = now)
C13_Sent == SelectSeq(dispatched, LAMBDA d : d.message.timestamp = now)
C13_SentOn(channel) == SelectSeq(C13_Sent, LAMBDA d : d.channel = channel)
C13_Capped(count, lines, items) ==
    /\ count = Len(items)
    /\ Len(lines) = (IF Len(items) < 5 THEN Len(items) ELSE 5)
C13_SlackConfigured == Config.alerting.slack_webhook # Null
C13_EmailConfigured ==
    /\ Config.alerting.email_config.sender_email # Null
    /\ Config.alerting.email_config.recipient_emails # <<>>
C13_SingleSummary ==
    /\ pc \in {"table", "completeness", "freshness", "uniqueness", "validity",
               "business_rules", "store", "detect", "revenue", "volume", "margin",
               "alerts"} =>
            C13_Composed = <<>> /\ C13_Sent = <<>>
    /\ pc = "report" =>
        /\ Len(C13_Composed) <= 1
        /\ (Len(C13_Composed) = 1)
                <=> (C13_Critical # <<>> \/ C13_High # <<>> \/ anomaly_results # <<>>)
        /\ C13_Composed = <<>> => C13_Sent = <<>>
        /\ C13_Composed # <<>> =>
            LET m == C13_Composed[1] IN
            /\ C13_Capped(m.critical_count, m.critical_lines, C13_Critical)
            /\ C13_Capped(m.high_count, m.high_lines, C13_High)
            /\ C13_Capped(m.anomaly_count, m.anomaly_lines, anomaly_results)
            /\ \A i \in 1..Len(m.critical_lines) :
                    m.critical_lines[i]
                        = <<C13_Critical[i].table_name, C13_Critical[i].message>>
            /\ \A i \in 1..Len(m.high_lines) :
                    m.high_lines[i] = <<C13_High[i].table_name, C13_High[i].message>>
            /\ \A i \in 1..Len(m.anomaly_lines) :
                    m.anomaly_lines[i]
                        = <<anomaly_results[i].table_name, anomaly_results[i].metric_name,
                            anomaly_results[i].anomaly_score>>
            /\ Len(C13_SentOn("slack")) = (IF C13_SlackConfigured THEN 1 ELSE 0)
            /\ Len(C13_SentOn("email")) = (IF C13_EmailConfigured THEN 1 ELSE 0)
            /\ Len(C13_Sent) = Len(C13_SentOn("slack")) + Len(C13_SentOn("email"))
            /\ \A i \in 1..Len(C13_Sent) :
                    /\ C13_Sent[i].channel = "slack" => C13_Sent[i].message = m
                    /\ C13_Sent[i].channel = "email" =>
                            C13_Sent[i].message = plain_message(m)

\* six critical results, six high ones and twelve anomalies: the summary counts them
\* all, lists five of each, and went to the webhook and by mail
C13_Witness ==
    /\ pc = "report"
    /\ Len(C13_Critical) = 6 /\ Len(C13_High) = 6 /\ Len(anomaly_results) = 12
    /\ Len(C13_Composed) = 1
    /\ C13_Composed[1].critical_count = 6 /\ Len(C13_Composed[1].critical_lines) = 5
    /\ C13_Composed[1].anomaly_count = 12 /\ Len(C13_Composed[1].anomaly_lines) = 5
    /\ Len(C13_SentOn("slack")) = 1 /\ Len(C13_SentOn("email")) = 1

\* a cycle whose results are all of low or medium severity, without anomaly, with
\* both channels configured: nothing was composed or sent
C13_Quiet ==
    /\ pc = "report" /\ quality_results # <<>>
    /\ C13_SlackConfigured /\ C13_EmailConfigured
    /\ C13_Composed = <<>> /\ dispatched = <<>>

\* C14: within a cycle each channel is tried once at most; when the post to the
\* webhook failed and mail is configured, the mail was still tried (and the other
\* way round); a failed send never leaves the cycle in the raised state, and once the
\* cycle is over its report has been returned.
C14_Failed == SelectSeq(C13_Sent, LAMBDA d : ~d.delivered)
C14_BestEffort ==
    /\ Len(C13_SentOn("slack")) <= 1
    /\ Len(C13_SentOn("email")) <= 1
    /\ C14_Failed # <<>> =>
        /\ pc \in {"report", "idle"}
        /\ C13_SlackConfigured => Len(C13_SentOn("slack")) = 1
        /\ C13_EmailConfigured => Len(C13_SentOn("email")) = 1
        /\ pc = "idle" =>
                report # Null /\ Val(report).generated_at = now

\* both sends of a cycle failed, first the webhook then the mail, and the cycle
\* returned its report
C14_Witness ==
    /\ pc = "idle" /\ report # Null /\ Val(report).generated_at = now
    /\ Len(C13_Sent) = 2
    /\ C13_Sent[1].channel = "slack" /\ ~C13_Sent[1].delivered
    /\ C13_Sent[2].channel = "email" /\ ~C13_Sent[2].delivered

\* C15: no failure of a step leaves run_monitoring_cycle as an exception: the cycle
\* is never in the state where it raised to its caller.
C15_NoErrorPropagates == pc # "raised"

\* C16: whatever tab of the dashboard is rendered, the callback gives the framework
\* a content and never an exception.
C16_NeverRaises == tab_content # Null => ~Val(tab_content).raised

\* C17: a construction of the monitor sets the configuration to the content of the
\* config file and leaves the file as it is, or, when there is no file, sets it to
\* the hardcoded default and writes that default to the path; no other step touches
\* the configuration or the file; so every monitor constructed later on the same
\* path has the configuration the file holds, the default when the file was absent.
C17_Constructed == monitors' = monitors + 1
C17_LoadOnce ==
    /\ [](monitors >= 1 => (config # Null /\ config = config_file))
    /\ [][ /\ (C17_Constructed /\ config_file # Null) =>
                (config' = config_file /\ config_file' = config_file)
           /\ (C17_Constructed /\ config_file = Null) =>
                (config' = Some(default_config) /\ config_file' = Some(default_config))
           /\ ~C17_Constructed => (config' = config /\ config_file' = config_file)
         ]_vars

\* a second monitor was constructed on a path that had no file at the start (only
\* the dimension table is in the warehouse): both got the default, now in the file
C17_Witness ==
    /\ monitors = 2
    /\ ~warehouse[PartnerDashboard].exists
    /\ warehouse["dim_customer_segments"].exists
    /\ config = Some(default_config)
    /\ config_file = Some(default_config)

\* C18: no step of the monitor (construction, checks, store, scans, alerts, report)
\* changes a warehouse table: its existence, columns and rows stay as they are; the
\* tables created in the database file are the three bookkeeping tables only, and
\* rows are written to them only.
C18_ReadOnly ==
    [][ /\ warehouse' = warehouse
        /\ db_tables' \subseteq Bookkeeping
        /\ db_tables \subseteq db_tables'
      ]_vars

\* two cycles over a dashboard with a row that breaks the business rule have run and
\* stored their results
C18_Witness ==
    /\ pc = "idle" /\ cycles = 2
    /\ db_tables = Bookkeeping
    /\ db_quality_results # <<>>
    /\ warehouse[PartnerDashboard].exists
    /\ \E i \in 1..Len(warehouse[PartnerDashboard].rows) :
            high_revenue_low_health(warehouse[PartnerDashboard].rows[i])

\* C19: validity and business-rule results are recorded for the partner dashboard
\* only, whatever the other tables hold; when the dashboard's validity query runs
\* (the table is there with both columns) the run has exactly two validity results,
\* revenue_validity on revenue_30d then health_score_validity on
\* overall_health_score, each PASS when no row breaks its predicate (a revenue
\* below 0; a health score below 0 or above 100) and FAIL otherwise.
C19_Validity == SelectSeq(quality_results, LAMBDA r : r.check_type = "VALIDITY")
C19_Scoped == SelectSeq(quality_results,
                        LAMBDA r : r.check_type \in {"VALIDITY", "BUSINESS_RULE"})
C19_Checked ==
    /\ Partner.exists
    /\ HasColumns(Partner, {"revenue_30d", "overall_health_score"})
    /\ ~\E i \in 1..Len(quality_results) :
            /\ quality_results[i].table_name = PartnerDashboard
            /\ quality_results[i].check_type = "SYSTEM"
C19_Breaks(column, low, high) ==
    \E i \in 1..Len(Partner.rows) :
        /\ Partner.rows[i][column] # Null
        /\ (Partner.rows[i][column][1] < low \/ Partner.rows[i][column][1] > high)
C19_SingleTableScope ==
    /\ \A i \in 1..Len(C19_Scoped) : C19_Scoped[i].table_name = PartnerDashboard
    /\ (pc \in C12_AfterLoop /\ ~C19_Checked) => C19_Validity = <<>>
    /\ (pc \in C12_AfterLoop /\ C19_Checked) =>
        /\ Len(C19_Validity) = 2
        /\ C19_Validity[1].check_name = "revenue_validity"
        /\ C19_Validity[1].column_name = "revenue_30d"
        /\ C19_Validity[2].check_name = "health_score_validity"
        /\ C19_Validity[2].column_name = "overall_health_score"
        /\ C19_Validity[1].status
                = (IF C19_Breaks("revenue_30d", 0, 1000000) THEN "FAIL" ELSE "PASS")
        /\ C19_Validity[2].status
                = (IF C19_Breaks("overall_health_score", 0, 100) THEN "FAIL" ELSE "PASS")

\* the dashboard has a negative revenue, the insights table after it has the same
\* columns with an out-of-range score: two validity results, FAIL then PASS, both
\* for the dashboard
C19_Witness ==
    /\ pc = "store"
    /\ C19_Checked
    /\ C19_Breaks("revenue_30d", 0, 1000000) /\ ~C19_Breaks("overall_health_score", 0, 100)
    /\ warehouse["mart_partner_optimization_insights"].exists
    /\ Len(warehouse["mart_partner_optimization_insights"].rows) = 2
    /\ Len(C19_Validity) = 2
    /\ C19_Validity[1].status = "FAIL" /\ C19_Validity[2].status = "PASS"

\* C20: a run has one business-rule result at most, for the dashboard; its value is
\* the share of rows that do not have revenue_30d > 50000 with
\* overall_health_score < 30; its status is PASS when that share is at least 0.95
\* and WARN otherwise, never FAIL; its severity is MEDIUM when the share is below
\* 0.90 and LOW otherwise; and a run whose other results are all below HIGH, without
\* anomaly, composes and sends no alert whatever the business-rule result is.
C20_Rule == SelectSeq(quality_results, LAMBDA r : r.check_type = "BUSINESS_RULE")
C20_Others == SelectSeq(quality_results, LAMBDA r : r.check_type # "BUSINESS_RULE")
C20_Compliant ==
    {i \in 1..Len(Partner.rows) :
        ~(/\ Partner.rows[i].revenue_30d # Null
          /\ Partner.rows[i].overall_health_score # Null
          /\ Partner.rows[i].revenue_30d[1] > 50000
          /\ Partner.rows[i].overall_health_score[1] < 30)}
C20_BusinessRule ==
    /\ Len(C20_Rule) <= 1
    /\ \A i \in 1..Len(C20_Rule) :
        LET r == C20_Rule[i]
            share == Cardinality(C20_Compliant)
            rows == Len(Partner.rows)
        IN  /\ r.table_name = PartnerDashboard
            /\ rows > 0
            /\ r.value.den > 0
            /\ r.value.num * rows = share * r.value.den
            /\ r.status = (IF share * 100 >= 95 * rows THEN "PASS" ELSE "WARN")
            /\ r.status # "FAIL"
            /\ r.severity = (IF share * 100 < 90 * rows THEN "MEDIUM" ELSE "LOW")
            /\ r.severity \notin {"CRITICAL", "HIGH"}
    /\ (pc \in C12_AfterLoop /\ C19_Checked /\ Len(Partner.rows) > 0) => Len(C20_Rule) = 1
    /\ ( /\ pc = "report"
         /\ \A i \in 1..Len(C20_Others) : C20_Others[i].severity \notin {"CRITICAL", "HIGH"}
         /\ anomaly_results = <<>> ) =>
            C13_Composed = <<>> /\ C13_Sent = <<>>

\* 17 of 20 rows comply (0.85): the result is WARN and MEDIUM, and with both
\* channels configured nothing was composed or sent
C20_Witness ==
    /\ pc = "report"
    /\ Len(Partner.rows) = 20 /\ Cardinality(C20_Compliant) = 17
    /\ Len(C20_Rule) = 1
    /\ C20_Rule[1].status = "WARN" /\ C20_Rule[1].severity = "MEDIUM"
    /\ C13_SlackConfigured /\ C13_EmailConfigured
    /\ C13_Composed = <<>> /\ dispatched = <<>>

\* C21: a cycle works on its own results only. Every result carries the time of the
\* cycle that produced it; within a cycle the monitor's quality results, and after
\* the scans began its anomaly results, are all of the current cycle; the rows stored
\* with the cycle's time are the cycle's results, each once, and none before the
\* store; the report lists results of its own cycle only, and the alert counts them.
C21_InCycle ==
    {"table", "completeness", "freshness", "uniqueness", "validity", "business_rules",
     "store", "detect", "revenue", "volume", "margin", "alerts", "report"}
C21_StoredNow == SelectSeq(db_quality_results, LAMBDA row : row.timestamp = now)
C21_Stateless ==
    /\ pc \in C21_InCycle =>
            \A i \in 1..Len(quality_results) : quality_results[i].timestamp = now
    /\ pc \in {"revenue", "volume", "margin", "alerts", "report"} =>
            \A i \in 1..Len(anomaly_results) : anomaly_results[i].timestamp = now
    /\ pc \in {"table", "completeness", "freshness", "uniqueness", "validity",
               "business_rules", "store"} => C21_StoredNow = <<>>
    /\ pc \in {"detect", "revenue", "volume", "margin", "alerts", "report"} =>
            /\ Len(C21_StoredNow) = Len(quality_results)
            /\ \A i \in 1..Len(quality_results) :
                    /\ C21_StoredNow[i].check_name = quality_results[i].check_name
                    /\ C21_StoredNow[i].table_name = quality_results[i].table_name
                    /\ C21_StoredNow[i].column_name = quality_results[i].column_name
                    /\ C21_StoredNow[i].value = quality_results[i].value
    /\ pc = "report" =>
            \A i \in 1..Len(C13_Composed) :
                /\ C13_Composed[i].anomaly_count = Len(anomaly_results)
                /\ C13_Composed[i].critical_count + C13_Composed[i].high_count
                        <= Len(quality_results)
    /\ report # Null =>
            /\ \A i \in 1..Len(Val(report).quality_results) :
                    Val(report).quality_results[i].timestamp = Val(report).generated_at
            /\ \A i \in 1..Len(Val(report).anomaly_results) :
                    Val(report).anomaly_results[i].timestamp = Val(report).generated_at
            /\ (pc = "idle" /\ Val(report).generated_at = now /\ quality_results # <<>>) =>
                    Val(report).quality_results = quality_results

\* the second cycle of one monitor object has run on an unchanged dashboard: the
\* table holds the rows of both cycles, the report only the second cycle's results
C21_Witness ==
    /\ pc = "idle" /\ cycles = 2 /\ monitors = 1
    /\ report # Null /\ Val(report).generated_at = now
    /\ Val(report).quality_results # <<>>
    /\ Val(report).anomaly_results # <<>>
    /\ Len(db_quality_results) = 2 * Len(Val(report).quality_results)
    /\ Len(C21_StoredNow) = Len(Val(report).quality_results)

\* C22: every quality result the monitor holds and every stored row has a check type
\* among the five kinds of check, a status among PASS, FAIL and WARN and a severity
\* among LOW, MEDIUM, HIGH and CRITICAL
C22_Enumerated ==
    \A result \in Range(quality_results) \cup Range(db_quality_results) :
        /\ result.check_type \in {"COMPLETENESS", "FRESHNESS", "UNIQUENESS", "VALIDITY",
                                  "BUSINESS_RULE"}
        /\ result.status \in {"PASS", "FAIL", "WARN"}
        /\ result.severity \in {"LOW", "MEDIUM", "HIGH", "CRITICAL"}

\* C23: the counts of a report add up. Passed, failed and warning checks sum to
\* total_checks, and so do the per-severity counts and the PASS/FAIL/WARN counts of
\* the per-table breakdown; the per-metric anomaly counts sum to total_anomalies;
\* total_checks and total_anomalies are the numbers of results the report lists.
C23_TableTotal(table_summary) ==
    [tn \in DOMAIN table_summary |->
        table_summary[tn]["PASS"] + table_summary[tn]["FAIL"] + table_summary[tn]["WARN"]]
C23_ReportAddsUp ==
    report # Null =>
        LET r == Val(report)
            total_checks == r.summary.total_checks
            by_table == C23_TableTotal(r.table_summary)
        IN  /\ r.summary.passed_checks + r.summary.failed_checks
                    + r.summary.warning_checks = total_checks
            /\ SumOver(DOMAIN r.severity_breakdown, r.severity_breakdown) = total_checks
            /\ SumOver(DOMAIN by_table, by_table) = total_checks
            /\ SumOver(DOMAIN r.anomaly_summary.by_metric, r.anomaly_summary.by_metric)
                    = r.anomaly_summary.total_anomalies
            /\ total_checks = Len(r.quality_results)
            /\ r.anomaly_summary.total_anomalies = Len(r.anomaly_results)
            /\ r.anomaly_summary.high_score_anomalies <= r.anomaly_summary.total_anomalies

\* a report over several tables with passes, failures and a warning, more than one
\* severity, and anomalies
C23_Witness ==
    /\ report # Null
    /\ Val(report).summary.passed_checks > 0
    /\ Val(report).summary.failed_checks > 0
    /\ Val(report).summary.warning_checks > 0
    /\ Cardinality(DOMAIN Val(report).severity_breakdown) > 1
    /\ Cardinality(DOMAIN Val(report).table_summary) > 1
    /\ Val(report).anomaly_summary.total_anomalies > 0

\* C24: the steps of a cycle run one after another in a fixed order. For each table
\* in configured order: completeness, freshness, uniqueness, validity, business
\* rule; after the last table the results are stored; then the revenue, volume and
\* margin scans; then the alerts; then the report. Each step changes only what is
\* its own: rows are written by the store step alone, alerts are dispatched only
\* after the rows of the cycle were written, the report is produced last.
C24_Successors(step) ==
    CASE step = "table" -> {"table", "completeness", "store"}
      [] step = "completeness" -> {"freshness"}
      [] step = "freshness" -> {"uniqueness"}
      [] step = "uniqueness" -> {"validity"}
      [] step = "validity" -> {"business_rules"}
      [] step = "business_rules" -> {"table"}
      [] step = "store" -> {"detect", "raised"}
      [] step = "detect" -> {"revenue"}
      [] step = "revenue" -> {"volume"}
      [] step = "volume" -> {"margin"}
      [] step = "margin" -> {"alerts"}
      [] step = "alerts" -> {"report"}
      [] step = "report" -> {"idle"}
      [] OTHER -> {"new", "dashboard", "idle", "table"}
C24_CheckTypeAt(step) ==
    CASE step = "completeness" -> "COMPLETENESS"
      [] step = "freshness" -> "FRESHNESS"
      [] step = "uniqueness" -> "UNIQUENESS"
      [] step = "validity" -> "VALIDITY"
      [] step = "business_rules" -> "BUSINESS_RULE"
      [] OTHER -> "SYSTEM"
C24_InCycleStep ==
    /\ pc' \in C24_Successors(pc)
    /\ (pc = "table" /\ pc' = "table") => table_idx' = table_idx + 1
    /\ (pc = "table" /\ pc' = "store") => table_idx > Len(Config.monitoring_tables)
    /\ pc = "business_rules" => table_idx' = table_idx + 1
    /\ pc \in {"table", "completeness", "freshness", "uniqueness", "validity",
               "business_rules"} =>
            /\ Len(quality_results') >= Len(quality_results)
            /\ \A i \in 1..Len(quality_results') :
                    IF i <= Len(quality_results)
                    THEN quality_results'[i] = quality_results[i]
                    ELSE /\ quality_results'[i].check_type = C24_CheckTypeAt(pc)
                         /\ quality_results'[i].table_name
                                = Config.monitoring_tables[table_idx]
    /\ quality_results' # quality_results =>
            pc \in {"idle", "raised", "table", "completeness", "freshness", "uniqueness",
                    "validity", "business_rules"}
    /\ db_quality_results' # db_quality_results =>
            /\ pc = "store" /\ pc' = "detect"
            /\ UNCHANGED << quality_results, anomaly_results, dispatched, report >>
    /\ anomaly_results' # anomaly_results =>
            /\ pc \in {"detect", "revenue", "volume", "margin"}
            /\ Len(C21_StoredNow) = Len(quality_results)
            /\ UNCHANGED << quality_results, db_quality_results, dispatched, report >>
    /\ (dispatched' # dispatched \/ alert_messages' # alert_messages) =>
            /\ pc = "alerts"
            /\ Len(C21_StoredNow) = Len(quality_results)
            /\ UNCHANGED << quality_results, anomaly_results, db_quality_results, report >>
    /\ report' # report =>
            /\ pc = "report" /\ pc' = "idle"
            /\ UNCHANGED << quality_results, anomaly_results, db_quality_results,
                            dispatched, alert_messages >>
C24_Step == (pc \in C21_InCycle \/ pc' \in C21_InCycle) => C24_InCycleStep
C24_StrictOrder == [][C24_Step]_vars

\* a cycle went through every step: rows stored, anomalies found, an alert
\* dispatched and the report returned, over more than one table
C24_Witness ==
    /\ pc = "idle" /\ report # Null /\ Val(report).generated_at = now
    /\ Cardinality(DOMAIN Val(report).table_summary) > 1
    /\ C21_StoredNow # <<>>
    /\ anomaly_results # <<>>
    /\ \E i \in 1..Len(dispatched) : dispatched[i].message.timestamp = now

\* C25: with the default thresholds (data_completeness 0.95, data_freshness_hours
\* 24) a quality result of severity HIGH or CRITICAL has status FAIL and a result of
\* status FAIL does not have severity LOW; the checks an alert lists or counts all
\* failed, and a run whose checks all passed and which found no anomaly composes no
\* alert.
C25_DefaultThresholds ==
    /\ config # Null
    /\ Config.thresholds.data_completeness = R(95, 100)
    /\ Config.thresholds.data_freshness_hours = R(24, 1)
C25_Coherent(result) ==
    /\ result.severity \in {"HIGH", "CRITICAL"} => result.status = "FAIL"
    /\ result.status = "FAIL" => result.severity # "LOW"
C25_SeverityCoherent ==
    C25_DefaultThresholds =>
        /\ \A i \in 1..Len(quality_results) : C25_Coherent(quality_results[i])
        /\ pc = "report" =>
                /\ \A i \in 1..Len(C13_Composed) :
                        C13_Composed[i].critical_count + C13_Composed[i].high_count
                            = Len(SelectSeq(quality_results,
                                    LAMBDA r : /\ r.status = "FAIL"
                                               /\ r.severity \in {"HIGH", "CRITICAL"}))
                /\ ((\A i \in 1..Len(quality_results) : quality_results[i].status = "PASS")
                        /\ anomaly_results = <<>>) => C13_Composed = <<>>

\* default thresholds; the run holds a failed check of medium severity, a failed
\* check of high severity and a passing check of low severity, and the alert was
\* composed
C25_Witness ==
    /\ C25_DefaultThresholds /\ pc = "report" /\ C13_Composed # <<>>
    /\ \E i \in 1..Len(quality_results) :
            quality_results[i].status = "FAIL" /\ quality_results[i].severity = "MEDIUM"
    /\ \E i \in 1..Len(quality_results) :
            quality_results[i].status = "FAIL" /\ quality_results[i].severity = "HIGH"
    /\ \E i \in 1..Len(quality_results) :
            quality_results[i].status = "PASS" /\ quality_results[i].severity = "LOW"

\* C26: every anomaly result the monitor holds has is_anomaly = TRUE and, the volume
\* threshold being positive, an anomaly_score above 1 (above 2 for daily_revenue):
\* observations that are not anomalous are not recorded. The alert of a cycle counts
\* the anomalies its report totals, and a cycle without an alert totals none.
C26_PositiveVolumeThreshold ==
    config # Null /\ RLt(R(0, 1), Config.thresholds.order_volume_anomaly_threshold)
C26_OnlyAnomalies ==
    C26_PositiveVolumeThreshold =>
        /\ \A i \in 1..Len(anomaly_results) :
                /\ anomaly_results[i].is_anomaly
                /\ ScoreGt(anomaly_results[i].anomaly_score, 1)
                /\ anomaly_results[i].metric_name = "daily_revenue" =>
                        ScoreGt(anomaly_results[i].anomaly_score, 2)
        /\ pc = "report" =>
                LET total_anomalies ==
                        generate_quality_report(quality_results, anomaly_results, now)
                            .anomaly_summary.total_anomalies
                IN  /\ \A i \in 1..Len(C13_Composed) :
                            C13_Composed[i].anomaly_count = total_anomalies
                    /\ C13_Composed = <<>> => total_anomalies = 0
        /\ report # Null =>
                /\ Val(report).anomaly_summary.total_anomalies
                        = Len(Val(report).anomaly_results)
                /\ \A i \in 1..Len(alert_messages) :
                        alert_messages[i].timestamp = Val(report).generated_at =>
                            alert_messages[i].anomaly_count
                                = Val(report).anomaly_summary.total_anomalies

\* a cycle ended with anomalies of the three metrics next to rows that were looked at
\* and not recorded; the alert and the report agree on the count
C26_Witness ==
    /\ pc = "idle" /\ report # Null /\ Val(report).generated_at = now
    /\ C13_Composed # <<>>
    /\ C13_Composed[1].anomaly_count = Val(report).anomaly_summary.total_anomalies
    /\ DOMAIN Val(report).anomaly_summary.by_metric
            = {"daily_revenue", "order_volume_growth", "gross_margin"}
    /\ Val(report).anomaly_summary.by_metric["order_volume_growth"]
            < Len(warehouse[PartnerDashboard].rows)

\* C27: storing the results of a run is all or nothing. The store step either
\* appends one row per result of the run, in the order the results were recorded
\* and with the fields of the result, or, when an INSERT raised, leaves the table as
\* it was; rows already in the table are kept as they are in both cases.
C27_RowOf(row, result) ==
    /\ row.check_name = result.check_name /\ row.table_name = result.table_name
    /\ row.column_name = result.column_name /\ row.check_type = result.check_type
    /\ row.status = result.status /\ row.value = result.value
    /\ row.threshold = result.threshold /\ row.message = result.message
    /\ row.timestamp = result.timestamp /\ row.severity = result.severity
C27_Committed ==
    /\ Len(db_quality_results') = Len(db_quality_results) + Len(quality_results)
    /\ \A i \in 1..Len(db_quality_results) : db_quality_results'[i] = db_quality_results[i]
    /\ \A i \in 1..Len(quality_results) :
            C27_RowOf(db_quality_results'[Len(db_quality_results) + i], quality_results[i])
C27_StoreStep ==
    pc = "store" =>
        \/ pc' = "detect" /\ C27_Committed
        \/ pc' = "raised" /\ db_quality_results' = db_quality_results
C27_AllOrNothing == [][C27_StoreStep]_vars

\* the store of a second cycle raised: the table holds the rows of the first cycle
\* and none of the several results of the second
C27_Witness ==
    /\ pc = "raised" /\ cycles = 2
    /\ Len(quality_results) > 1
    /\ db_quality_results # <<>>
    /\ C21_StoredNow = <<>>

\* C28: a monitored table that exists and has no rows gets no completeness,
\* uniqueness or business-rule result and no table_accessibility failure, and a
\* monitored table that is absent gets no result at all; what is recorded for a
\* table without rows passed and is not of high or critical severity, and no
\* anomaly is recorded for it. The other tables get their results all the same, so
\* the success rate of the run is not below that of the other tables' results and
\* the alert counts the other tables' results only.
C28_Monitored == Range(Config.monitoring_tables)
C28_Probed(table_name) == table_name \notin faults.table_exists
C28_Absent(table_name) == ~warehouse[table_name].exists
C28_NoRows(table_name) ==
    warehouse[table_name].exists /\ warehouse[table_name].rows = <<>>
C28_Rowless ==
    {tn \in C28_Monitored : C28_Probed(tn) /\ (C28_Absent(tn) \/ C28_NoRows(tn))}
C28_FromRowless == SelectSeq(quality_results, LAMBDA r : r.table_name \in C28_Rowless)
C28_FromOthers == SelectSeq(quality_results, LAMBDA r : r.table_name \notin C28_Rowless)
C28_EmptyTables ==
    pc \in C12_AfterLoop =>
        /\ \A tn \in C28_Rowless :
            /\ C28_Absent(tn) => C12_ResultsFor(tn) = <<>>
            /\ \A r \in Range(C12_ResultsFor(tn)) :
                    /\ r.check_type \notin {"COMPLETENESS", "UNIQUENESS", "BUSINESS_RULE",
                                            "SYSTEM"}
                    /\ r.status = "PASS"
                    /\ r.severity \notin {"HIGH", "CRITICAL"}
            /\ pc \in {"alerts", "report"} =>
                    \A a \in Range(anomaly_results) : a.table_name # tn
        /\ \A tn \in C28_Monitored \ C28_Rowless :
                (C28_Probed(tn) /\ HasColumns(warehouse[tn], {"dashboard_updated_at"})
                    /\ warehouse[tn].rows[1].dashboard_updated_at # Null)
                    => \E r \in Range(C12_ResultsFor(tn)) : r.check_type = "FRESHNESS"
        /\ LET passed == Len(SelectSeq(quality_results, is_pass))
               total == Len(quality_results)
               passed_others == Len(SelectSeq(C28_FromOthers, is_pass))
               total_others == Len(C28_FromOthers)
           IN  /\ passed - passed_others = total - total_others
               /\ RLe(success_rate(passed_others, total_others), success_rate(passed, total))
        /\ pc = "report" =>
                \A i \in 1..Len(C13_Composed) :
                    C13_Composed[i].critical_count + C13_Composed[i].high_count
                        = Len(SelectSeq(C28_FromOthers,
                                LAMBDA r : r.severity \in {"HIGH", "CRITICAL"}))

\* the dashboard exists without rows and has its two validity results only, the
\* financial summary is absent, and dim_customer_segments after them has results
C28_Witness ==
    /\ pc = "report" /\ C28_Probed(PartnerDashboard)
    /\ C28_NoRows(PartnerDashboard) /\ C28_Absent(FinancialSummary)
    /\ Len(C12_ResultsFor(PartnerDashboard)) = 2
    /\ Len(warehouse["dim_customer_segments"].rows) = 3
    /\ C12_ResultsFor("dim_customer_segments") # <<>>
    /\ C12_ResultsFor(FinancialSummary) = <<>>

\* C29: a run records at most one freshness result per table, on the first of the
\* candidate columns (in candidate order) that the table has; when that column holds
\* no timestamp the table gets no freshness result, whatever a later candidate
\* column holds.
C29_Freshness(table_name) ==
    SelectSeq(quality_results,
              LAMBDA r : r.table_name = table_name /\ r.check_type = "FRESHNESS")
C29_FirstCandidate(table_name, k) ==
    /\ timestamp_columns[k] \in Range(warehouse[table_name].cols)
    /\ \A j \in 1..(k - 1) : timestamp_columns[j] \notin Range(warehouse[table_name].cols)
C29_HoldsTimestamp(table_name, column) ==
    \E i \in 1..Len(warehouse[table_name].rows) :
        warehouse[table_name].rows[i][column] # Null
C29_FirstCandidateOnly ==
    pc \in C21_InCycle =>
        \A table_name \in Range(Config.monitoring_tables) :
            /\ Len(C29_Freshness(table_name)) <= 1
            /\ \A r \in Range(C29_Freshness(table_name)) :
                    \E k \in 1..Len(timestamp_columns) :
                        /\ C29_FirstCandidate(table_name, k)
                        /\ r.column_name = timestamp_columns[k]
                        /\ C29_HoldsTimestamp(table_name, timestamp_columns[k])
            /\ \A k \in 1..Len(timestamp_columns) :
                    (C29_FirstCandidate(table_name, k)
                        /\ ~C29_HoldsTimestamp(table_name, timestamp_columns[k]))
                        => C29_Freshness(table_name) = <<>>

\* analysis_created_at comes first among the candidates and holds no timestamp,
\* segment_created_at holds one: the checks of the table are over and no freshness
\* result was recorded
C29_Witness ==
    /\ pc = "store"
    /\ HasColumns(warehouse["mart_cohort_analysis"],
                  {"analysis_created_at", "segment_created_at"})
    /\ ~C29_HoldsTimestamp("mart_cohort_analysis", "analysis_created_at")
    /\ C29_HoldsTimestamp("mart_cohort_analysis", "segment_created_at")
    /\ C29_Freshness("mart_cohort_analysis") = <<>>

\* C30: a channel gets an alert only when it is configured. Nothing is posted to
\* the webhook unless slack_webhook is set, nothing is mailed unless sender_email
\* is set and recipient_emails is not empty; with the default configuration, which
\* sets none of them, nothing is ever dispatched, whatever the cycles found.
C30_DefaultAlerting == config # Null /\ Config.alerting = default_config.alerting
C30_OnlyConfigured ==
    /\ \A i \in 1..Len(dispatched) :
            /\ dispatched[i].channel \in {"slack", "email"}
            /\ dispatched[i].channel = "slack" => Config.alerting.slack_webhook # Null
            /\ dispatched[i].channel = "email" =>
                    /\ Config.alerting.email_config.sender_email # Null
                    /\ Config.alerting.email_config.recipient_emails # <<>>
    /\ C30_DefaultAlerting => dispatched = <<>>
    /\ config = Null => dispatched = <<>>

\* the default configuration: the cycle found critical and high results and
\* anomalies, composed its alert, and dispatched nothing
C30_Witness ==
    /\ pc = "report" /\ C30_DefaultAlerting
    /\ default_config.alerting.slack_webhook = Null
    /\ C13_Composed # <<>>
    /\ C13_Composed[1].critical_count > 0
    /\ C13_Composed[1].high_count > 0
    /\ C13_Composed[1].anomaly_count > 0
    /\ dispatched = <<>>

====
